---- MODULE Spec2Model ----
(***************************************************************************)
(* Verification model of LynxVk: the Vulkan context bootstrap, the         *)
(* swapchain resize protocol, scope-guarded construction and the deferred  *)
(* submission channel.                                                     *)
(*                                                                         *)
(* Every Vulkan call a handler makes is appended, in program order, to a   *)
(* call log; a handle is a positive number, 0 is VK_NULL_HANDLE.           *)
(***************************************************************************)
EXTENDS Integers, Sequences, FiniteSets, TLC

VARIABLES
    phase,      \* "start"; teapot_lean: "live", "failed", "cleaned";
                \* the other crates' constructions: "built", "unbuilt", "torn"
    base,       \* the fields of teapot_lean's VulkanBase
    prev,       \* base as it was when the last call was entered
    calls,      \* Vulkan calls made by the last handler, in program order
    ret,        \* Result of the last handler
    op,         \* name of the last handler
    live,       \* handles created and not yet destroyed
    destroyed,  \* handles passed to a destroy or free call
    twice,      \* handles passed to a destroy or free call more than once
    nh,         \* last handle value handed out by the driver
    ncalls,     \* number of calls made on the constructed object so far
    fault,      \* the step the driver failed in the last handler, NoFail if none
    built,      \* what the last construction returned, one entry per step
    chan,       \* mess: the entries held by the deferred_submits channel
    sent,       \* mess: the entries whose send has completed, in that order
    recvd,      \* mess: the entries received from the channel, in that order
    pending,    \* mess: the producers inside a deferred_submit call
    frame,      \* mess: the counter i of ash_test_main's frame loop
    clones,     \* mess: the number of Core clones alive (the Arc's strong count)
    sel,        \* the last capability selection: function, input and result
    slots       \* teapot: the Option<VulkanBase> and Option<VulkanData> of the application

chanVars == <<chan, sent, recvd, pending, frame, clones>>

vars == <<phase, base, prev, calls, ret, op, live, destroyed, twice, nh, ncalls, fault, built,
          chan, sent, recvd, pending, frame, clones, sel, slots>>

----------------------------------------------------------------------------
(* Bounds *)

MaxResizes == 2
MaxImages == 2
MaxCalls == 2
\* commands submitted by the bursting producer and by each other producer
MaxBurst == 17
MaxSubmits == 1
\* Core clones alive at one time
MaxClones == 2
\* the frame loop's counter i wraps at 255; the model wraps it here
FrameWrap == 2
\* crate::CONCURRENT_RESOURCE_COUNT, the number of per-frame resources
ConcurrentResourceCount == 2

----------------------------------------------------------------------------
(* Events and results *)

Ev(o, kind, h, arg) == [op |-> o, kind |-> kind, h |-> h, arg |-> arg]

Ok == [ok |-> TRUE, msg |-> "", idx |-> -1]
Err(msg, idx) == [ok |-> FALSE, msg |-> msg, idx |-> idx]

F(step, idx) == [step |-> step, idx |-> idx]

\* no capability selection has been made
NoSelection == [fn |-> "none"]
NoFail == F("none", 0)

RECURSIVE Concat(_)
Concat(ss) == IF ss = <<>> THEN <<>> ELSE Head(ss) \o Concat(Tail(ss))

Reverse(s) == [i \in 1..Len(s) |-> s[Len(s) + 1 - i]]

Range(s) == {s[i] : i \in 1..Len(s)}

Created(log) == {log[i].h : i \in {j \in 1..Len(log) : log[j].op = "create"}}
Destroyed(log) == {log[i].h : i \in {j \in 1..Len(log) : log[j].op = "destroy"}} \ {0}

\* the driver's bookkeeping: play a call log over the handle sets
RECURSIVE ApplyLog(_, _)
ApplyLog(log, st) ==
    IF log = <<>> THEN st
    ELSE LET e == Head(log)
             st1 == IF e.op = "create"
                      THEN [st EXCEPT !.live = @ \cup {e.h}]
                    ELSE IF e.op = "destroy" /\ e.h # 0
                      THEN [live |-> st.live \ {e.h},
                            destroyed |-> st.destroyed \cup {e.h},
                            twice |-> IF e.h \in st.destroyed
                                        THEN st.twice \cup {e.h} ELSE st.twice]
                    ELSE st
         IN ApplyLog(Tail(log), st1)

----------------------------------------------------------------------------
(* Scope-guarded construction.                                             *)
(* A function body is a list of steps.  A step creates count elements of   *)
(* the listed kinds; a guarded step registers a scopeguard whose closure   *)
(* destroys them.  When a step fails, `?` returns and the guards declared  *)
(* so far are dropped in reverse order of declaration.                     *)

Step(name, kinds, count, args, guarded, partial, err, indexed) ==
    [name |-> name, kinds |-> kinds, count |-> count, args |-> args,
     guarded |-> guarded, partial |-> partial, err |-> err, indexed |-> indexed]

\* a step that creates one element and guards it
Guarded(name, kinds, err) == Step(name, kinds, 1, <<>>, TRUE, "leak", err, FALSE)
\* a step that creates one element and leaves it unguarded
Plain(name, kinds, err) == Step(name, kinds, 1, <<>>, FALSE, "leak", err, FALSE)
\* a query or check: creates nothing
Check(name, err) == Step(name, <<>>, 1, <<>>, FALSE, "leak", err, FALSE)

StepHandles(s, cnt, h0) == [j \in 1..(cnt * Len(s.kinds)) |-> h0 + j]

StepEvents(o, s, cnt, h0) ==
    LET k == Len(s.kinds)
    IN [j \in 1..(cnt * k) |->
          Ev(o, s.kinds[((j - 1) % k) + 1], h0 + j,
             IF s.args = <<>> \/ o # "create" THEN 0 ELSE s.args[((j - 1) \div k) + 1])]

\* the guards dropped first to last
UnwindForward(guards) == Concat(guards)

\* the calls made when the scopeguards are dropped on an early return
Unwind(guards) == Concat(Reverse(guards))

\* the guards left to drop at the end of the body
CommitRuns(guards) == Concat(Reverse(guards))

\* ScopeGuard::into_inner on every guard: the closures are detached, not run
Commit(guards) == << >>

\* the closure of a guard: destroy the guarded elements
GuardClosure(s, h0) == StepEvents("destroy", s, s.count, h0)

\* a failing step that forgets the elements it had already created
PartialUndoNone(s, cnt, h0) == << >>

\* what a failing step leaves of the elements it had already created
PartialUndo(s, cnt, h0) ==
    IF s.partial = "rollback" THEN StepEvents("destroy", s, cnt, h0) ELSE <<>>

RECURSIVE RunFrom(_, _, _, _, _, _, _)
RunFrom(steps, fail, i, log, guards, held, h) ==
    IF i > Len(steps)
      THEN [ret |-> Ok, log |-> log, held |-> held, guards |-> guards, nh |-> h]
    ELSE LET s == steps[i]
             k == Len(s.kinds)
         IN IF fail.step = s.name
              THEN [ret |-> Err(s.err, IF s.indexed THEN fail.idx ELSE -1),
                    log |-> log \o StepEvents("create", s, fail.idx, h)
                                \o <<Ev("fail", s.name, 0, fail.idx)>>
                                \o PartialUndo(s, fail.idx, h)
                                \o Unwind(guards),
                    held |-> <<>>, guards |-> <<>>, nh |-> h + fail.idx * k]
            ELSE RunFrom(steps, fail, i + 1,
                         log \o StepEvents("create", s, s.count, h),
                         IF s.guarded THEN Append(guards, GuardClosure(s, h)) ELSE guards,
                         Append(held, StepHandles(s, s.count, h)),
                         h + s.count * k)

\* the steps of a body, its guards still pending when every step succeeded
RunScoped(steps, fail, h0) == RunFrom(steps, fail, 1, <<>>, <<>>, <<>>, h0)

\* a whole constructor: the steps, then the guards are committed into the
\* returned struct
Committed(r) == IF r.ret.ok THEN [r EXCEPT !.log = @ \o Commit(r.guards)] ELSE r

Construct(steps, fail, h0) == Committed(RunScoped(steps, fail, h0))

\* the failure points of a step list: element 0 of a single step, any
\* element of a loop
FailPoints(steps) ==
    UNION {{F(steps[i].name, j) : j \in 0..(steps[i].count - 1)} : i \in 1..Len(steps)}

----------------------------------------------------------------------------
(* teapot_lean: swapchain image views and depth buffer *)

ViewStep(images) ==
    Step("image_view", <<"image_view">>, Len(images), images, FALSE, "rollback",
         "failed to create image view", TRUE)

LeanCreateSwapchainImageViews(images, fail, h0) == RunScoped(<<ViewStep(images)>>, fail, h0)

CreateDepthBufferSteps ==
    << Guarded("depth_image", <<"image">>, "failed to create depth buffer image"),
       Guarded("depth_alloc", <<"allocation">>, "failed to allocate depth buffer image memory"),
       Check("depth_bind", "failed to bind depth buffer image memory"),
       Guarded("depth_view", <<"image_view">>, "failed to create depth buffer image view") >>

\* the MemImage create_depth_buffer returns from its three guards
DepthBufferResult(r) ==
    IF r.ret.ok
      THEN [ret |-> Ok, log |-> r.log, nh |-> r.nh,
            mem_image |-> [image |-> r.held[1][1], view |-> r.held[4][1],
                           allocation |-> r.held[2][1]]]
    ELSE [ret |-> r.ret, log |-> r.log, nh |-> r.nh]

CreateDepthBuffer(fail, h0) == DepthBufferResult(Construct(CreateDepthBufferSteps, fail, h0))

----------------------------------------------------------------------------
(* teapot_lean: surface capabilities, extent and image count *)

\* u32::MAX, the "any extent" sentinel; the model's word is the 31 bits that
\* the checker's integers hold, so the sentinel is the largest of those
U32Max == 2147483647

Max(a, b) == IF a >= b THEN a ELSE b
Min(a, b) == IF a <= b THEN a ELSE b

Extent(w, h) == [width |-> w, height |-> h]

Caps(cur, mn, mx, minc, maxc) ==
    [current_extent |-> cur, min_image_extent |-> mn, max_image_extent |-> mx,
     min_image_count |-> minc, max_image_count |-> maxc]

NullCaps == Caps(Extent(0, 0), Extent(0, 0), Extent(0, 0), 0, 0)

LeanSurfaceExtent(caps, win) ==
    IF caps.current_extent.width = U32Max
      THEN Extent(Max(caps.min_image_extent.width, Min(caps.max_image_extent.width, win.width)),
                  Max(caps.min_image_extent.height, Min(caps.max_image_extent.height, win.height)))
    ELSE caps.current_extent

LeanImageCount(caps) ==
    LET image_count == Max(caps.min_image_count, 3)
    IN IF caps.max_image_count # 0 THEN Min(image_count, caps.max_image_count) ELSE image_count

\* what the surface may report to new and resize, and the window size; the
\* extent computation is run over every window size in SurfaceExtentCall
CapsSet ==
    { Caps(Extent(U32Max, U32Max), Extent(1, 1), Extent(2, 2), 1, 2),
      Caps(Extent(2, 1), Extent(1, 1), Extent(3, 3), 1, 1) }

WinSet == { Extent(3, 2) }

----------------------------------------------------------------------------
(* teapot_lean: resize_internal *)

NullMemImage == [image |-> 0, view |-> 0, allocation |-> 0]

None == [some |-> FALSE, val |-> NullMemImage]
Some(v) == [some |-> TRUE, val |-> v]

\* old image views that are left alone
DestroyViewsNone(views) == << >>

DestroyViews(views) == [i \in 1..Len(views) |-> Ev("destroy", "image_view", views[i], 0)]

\* the closure that destroys a depth buffer: image, view, allocation
DestroyMemImage(m) ==
    << Ev("destroy", "image", m.image, 0),
       Ev("destroy", "image_view", m.view, 0),
       Ev("destroy", "allocation", m.allocation, 0) >>

RFail(r, log, h) == [ret |-> r, log |-> log, nh |-> h]

\* the old handle destroyed before the new swapchain is asked for
LeanSwapchainCallsEager(old_swapchain, swapchain, created) ==
    (IF old_swapchain # 0
       THEN << Ev("destroy", "swapchain", old_swapchain, 0) >> ELSE << >>)
    \o << Ev(IF created THEN "create" ELSE "fail", "swapchain", swapchain, old_swapchain) >>

\* the swapchain calls of resize_internal: create with the old handle as
\* old_swapchain, then destroy the old handle unless it is null
LeanSwapchainCalls(old_swapchain, swapchain, created) ==
    IF ~created THEN << Ev("fail", "swapchain", 0, old_swapchain) >>
    ELSE << Ev("create", "swapchain", swapchain, old_swapchain) >>
         \o (IF old_swapchain # 0
               THEN << Ev("destroy", "swapchain", old_swapchain, 0) >> ELSE << >>)

\* new depth buffer built or not: unwind the image view guards, or commit
\* them and the depth buffer guard into the returned SwapchainData
ResizeCommit(caps, win, swapchain, swapchain_images, swapchain_image_views, log, dr) ==
    \* Vec<ScopeGuard>: dropping the vector drops its elements first to last
    IF ~dr.ret.ok
      THEN RFail(dr.ret,
                 log \o dr.log \o Unwind(<< DestroyViews(swapchain_image_views) >>), dr.nh)
    ELSE [ret |-> Ok,
          log |-> log \o dr.log
                  \o Commit(<< DestroyViews(swapchain_image_views),
                               DestroyMemImage(dr.mem_image) >>),
          nh |-> dr.nh,
          res |-> [surface_capabilities |-> caps,
                   surface_extent |-> LeanSurfaceExtent(caps, win),
                   swapchain |-> swapchain,
                   swapchain_images |-> swapchain_images,
                   swapchain_image_views |-> swapchain_image_views,
                   depth_buffer_mem_image |-> dr.mem_image]]

\* new image views built or not; then the old depth buffer is destroyed and
\* create_depth_buffer is called
ResizeDepth(old_depth_buffer_mem_image, caps, win, fail, swapchain, swapchain_images, log, vr) ==
    IF ~vr.ret.ok THEN RFail(vr.ret, log \o vr.log, vr.nh)
    ELSE ResizeCommit(caps, win, swapchain, swapchain_images, vr.held[1],
                      log \o vr.log
                          \o (IF old_depth_buffer_mem_image.some
                                THEN DestroyMemImage(old_depth_buffer_mem_image.val)
                              ELSE << >>),
                      CreateDepthBuffer(fail, vr.nh))

\* the old image views are destroyed, then the new ones are created
ResizeViews(old_swapchain_image_views, old_depth_buffer_mem_image, caps, win, fail, swapchain, swapchain_images, log) ==
    ResizeDepth(old_depth_buffer_mem_image, caps, win, fail, swapchain, swapchain_images,
                log \o << Ev("query", "images", 0, swapchain) >>
                    \o DestroyViews(old_swapchain_image_views),
                LeanCreateSwapchainImageViews(swapchain_images, fail,
                                              swapchain + Len(swapchain_images)))

\* the new swapchain exists: get_swapchain_images
ResizeImages(old_swapchain_image_views, old_depth_buffer_mem_image, caps, win, n, fail, swapchain, log) ==
    IF fail.step = "images"
      THEN RFail(Err("failed to get swapchain images", -1),
                 log \o << Ev("fail", "images", 0, swapchain) >>, swapchain)
    ELSE ResizeViews(old_swapchain_image_views, old_depth_buffer_mem_image, caps, win, fail,
                     swapchain, [i \in 1..n |-> swapchain + i], log)

\* let _ = device.device_wait_idle(): the wait is made and what it returns
\* is dropped
WaitIdle(fail) ==
    << IF fail.step = "wait_idle" THEN Ev("fail", "wait_idle", 0, 0)
       ELSE Ev("wait_idle", "device", 0, 0) >>

\* the calls up to the surface capabilities
ResizeQueried(fail) == WaitIdle(fail) \o << Ev("query", "caps", 0, 0) >>

ResizeInternal(h0, old_swapchain, old_swapchain_image_views, old_depth_buffer_mem_image, caps, win, n, fail) ==
    IF fail.step = "caps"
      THEN RFail(Err("failed to get physical device surface capabilities", -1),
                 WaitIdle(fail) \o << Ev("fail", "caps", 0, 0) >>, h0)
    ELSE IF fail.step = "swapchain"
      THEN RFail(Err("failed to create swapchain", -1),
                 ResizeQueried(fail) \o LeanSwapchainCalls(old_swapchain, 0, FALSE), h0)
    ELSE ResizeImages(old_swapchain_image_views, old_depth_buffer_mem_image, caps, win, n, fail,
                      h0 + 1,
                      ResizeQueried(fail) \o LeanSwapchainCalls(old_swapchain, h0 + 1, TRUE))

ResizeFails(n) ==
    { NoFail, F("wait_idle", 0), F("caps", 0), F("swapchain", 0), F("images", 0) }
    \cup { F("image_view", i) : i \in 0..(n - 1) }
    \cup FailPoints(CreateDepthBufferSteps)

----------------------------------------------------------------------------
(* teapot_lean: VulkanBase *)

NullBase ==
    [instance |-> 0, surface |-> 0, device |-> 0, allocator |-> 0,
     surface_capabilities |-> NullCaps, surface_extent |-> Extent(0, 0),
     swapchain |-> 0, swapchain_images |-> << >>, swapchain_image_views |-> << >>,
     depth_buffer_mem_image |-> NullMemImage,
     physical_device |-> 0, queue_family |-> 0, queue |-> 0,
     surface_format |-> [format |-> "UNDEFINED", color_space |-> "SRGB_NONLINEAR"],
     present_mode |-> "FIFO", depth_format |-> "UNDEFINED"]

\* what new selects on a device whose surface offers FIFO only and whose
\* first depth format candidate is usable: the physical device, the
\* (B8G8R8A8_UNORM, SRGB_NONLINEAR) surface format new insists on, the
\* present mode, the depth format, the queue family and its queue 0
LeanSelected ==
    [physical_device |-> 1, queue_family |-> 0, queue |-> 1,
     surface_format |-> [format |-> "B8G8R8A8_UNORM", color_space |-> "SRGB_NONLINEAR"],
     present_mode |-> "FIFO", depth_format |-> "D16_UNORM_S8_UINT"]

\* VulkanBase::new up to the call of resize_internal.  Nothing is guarded;
\* the allocator is the one local with a Drop of its own.
LeanNewSteps ==
    << Check("compatibility_check", "compatibility check failed"),
       Plain("create_instance", <<"instance">>, "failed to create instance"),
       Plain("create_surface", <<"surface">>, "failed to create surface"),
       Check("get_physical_device", "failed to find suitable device"),
       Check("get_surface_formats", "failed to get physical device surface formats"),
       Check("surface_format", "cannot find surface format"),
       Check("present_modes", "failed to get physical device surface present modes"),
       Check("queue_family", "failed to find graphics queue with present support"),
       Plain("create_device", <<"device">>, "failed to create device"),
       Guarded("allocator", <<"allocator">>, "failed to create allocator") >>

\* resize_internal returned inside new: the struct is built, or the locals
\* are dropped
LeanNewResult(r1, r2) ==
    IF ~r2.ret.ok
      THEN [ret |-> r2.ret, log |-> r1.log \o r2.log \o Unwind(r1.guards),
            nh |-> r2.nh, base |-> NullBase]
    ELSE [ret |-> Ok, log |-> r1.log \o r2.log \o Commit(r1.guards), nh |-> r2.nh,
          base |-> [instance |-> r1.held[2][1],
                    surface |-> r1.held[3][1],
                    device |-> r1.held[9][1],
                    allocator |-> r1.held[10][1],
                    surface_capabilities |-> r2.res.surface_capabilities,
                    surface_extent |-> r2.res.surface_extent,
                    swapchain |-> r2.res.swapchain,
                    swapchain_images |-> r2.res.swapchain_images,
                    swapchain_image_views |-> r2.res.swapchain_image_views,
                    depth_buffer_mem_image |-> r2.res.depth_buffer_mem_image,
                    physical_device |-> LeanSelected.physical_device,
                    queue_family |-> LeanSelected.queue_family,
                    queue |-> LeanSelected.queue,
                    surface_format |-> LeanSelected.surface_format,
                    present_mode |-> LeanSelected.present_mode,
                    depth_format |-> LeanSelected.depth_format]]

\* the first swapchain: resize_internal with a null old swapchain, no old
\* views and no old depth buffer
LeanNewSwapchain(caps, win, n, fail, r1) ==
    IF ~r1.ret.ok THEN [ret |-> r1.ret, log |-> r1.log, nh |-> r1.nh, base |-> NullBase]
    ELSE LeanNewResult(r1, ResizeInternal(r1.nh, 0, << >>, None, caps, win, n, fail))

LeanVulkanBaseNew(h0, caps, win, n, fail) ==
    LeanNewSwapchain(caps, win, n, fail, RunScoped(LeanNewSteps, fail, h0))

\* a resize that selects the present mode again
LeanResizeResultReselects(taken, r) ==
    IF ~r.ret.ok THEN [ret |-> r.ret, log |-> r.log, nh |-> r.nh, base |-> taken]
    ELSE [ret |-> Ok, log |-> r.log, nh |-> r.nh,
          base |-> [taken EXCEPT
                      !.present_mode = "IMMEDIATE",
                      !.surface_capabilities = r.res.surface_capabilities,
                      !.surface_extent = r.res.surface_extent,
                      !.swapchain = r.res.swapchain,
                      !.swapchain_images = r.res.swapchain_images,
                      !.swapchain_image_views = r.res.swapchain_image_views,
                      !.depth_buffer_mem_image = r.res.depth_buffer_mem_image]]

\* resize after resize_internal returned: the six fields are assigned only
\* when it returned Ok
LeanResizeResult(taken, r) ==
    IF ~r.ret.ok THEN [ret |-> r.ret, log |-> r.log, nh |-> r.nh, base |-> taken]
    ELSE [ret |-> Ok, log |-> r.log, nh |-> r.nh,
          base |-> [taken EXCEPT
                      !.surface_capabilities = r.res.surface_capabilities,
                      !.surface_extent = r.res.surface_extent,
                      !.swapchain = r.res.swapchain,
                      !.swapchain_images = r.res.swapchain_images,
                      !.swapchain_image_views = r.res.swapchain_image_views,
                      !.depth_buffer_mem_image = r.res.depth_buffer_mem_image]]

\* VulkanBase::resize: the depth buffer is taken out of self with
\* std::mem::take, then resize_internal runs
LeanVulkanBaseResize(self, h0, caps, win, n, fail) ==
    LeanResizeResult([self EXCEPT !.depth_buffer_mem_image = NullMemImage],
                     ResizeInternal(h0, self.swapchain, self.swapchain_image_views,
                                    Some(self.depth_buffer_mem_image), caps, win, n, fail))

LeanVulkanBaseClean(self) ==
    DestroyMemImage(self.depth_buffer_mem_image)
    \o << Ev("destroy", "swapchain", self.swapchain, 0) >>
    \o DestroyViews(self.swapchain_image_views)
    \o << Ev("destroy", "allocator", self.allocator, 0),
          Ev("destroy", "device", self.device, 0),
          Ev("destroy", "surface", self.surface, 0),
          Ev("destroy", "instance", self.instance, 0) >>

Driver == [live |-> live, destroyed |-> destroyed, twice |-> twice]

PlayedTo(log, st) ==
    /\ live' = st.live
    /\ destroyed' = st.destroyed
    /\ twice' = st.twice
    /\ calls' = log

Played(log) == PlayedTo(log, ApplyLog(log, Driver))

\* a call of teapot_lean's VulkanBase returned r
LeanReturned(fail, r) ==
    /\ Played(r.log)
    /\ ret' = r.ret
    /\ nh' = r.nh
    /\ base' = r.base
    /\ fault' = fail

\* an Option slot of the application: None, or Some of a struct's handles
NoSlot == [some |-> FALSE, held |-> << >>]
Slot(held) == [some |-> TRUE, held |-> held]

Init ==
    /\ phase = "start"
    /\ base = NullBase
    /\ prev = NullBase
    /\ calls = << >>
    /\ ret = Ok
    /\ op = "none"
    /\ live = {}
    /\ destroyed = {}
    /\ twice = {}
    /\ nh = 0
    /\ ncalls = 0
    /\ fault = NoFail
    /\ built = << >>
    /\ chan = << >>
    /\ sent = << >>
    /\ recvd = << >>
    /\ pending = {}
    /\ frame = 0
    /\ clones = 0
    /\ sel = NoSelection
    /\ slots = [vulkan_base |-> NoSlot, vulkan_data |-> NoSlot]

LeanNew ==
    /\ phase = "start"
    /\ \E caps \in CapsSet, win \in WinSet :
         \E n \in LeanImageCount(caps)..MaxImages :
           \E fail \in FailPoints(LeanNewSteps) \cup ResizeFails(n) :
             /\ LeanReturned(fail, LeanVulkanBaseNew(nh, caps, win, n, fail))
             /\ phase' = IF ret'.ok THEN "live" ELSE "failed"
    /\ prev' = base
    /\ op' = "new"
    /\ UNCHANGED <<ncalls, built, chanVars, sel, slots>>

LeanResize ==
    /\ phase = "live"
    /\ ncalls < MaxResizes
    /\ \E caps \in CapsSet, win \in WinSet :
         \E n \in LeanImageCount(caps)..MaxImages :
           \E fail \in ResizeFails(n) :
             LeanReturned(fail, LeanVulkanBaseResize(base, nh, caps, win, n, fail))
    /\ prev' = base
    /\ op' = "resize"
    /\ ncalls' = ncalls + 1
    /\ UNCHANGED <<phase, built, chanVars, sel, slots>>

LeanClean ==
    /\ phase = "live"
    /\ Played(LeanVulkanBaseClean(base))
    /\ ret' = Ok
    /\ base' = NullBase
    /\ prev' = base
    /\ op' = "clean"
    /\ phase' = "cleaned"
    /\ fault' = NoFail
    /\ UNCHANGED <<nh, ncalls, built, chanVars, sel, slots>>

----------------------------------------------------------------------------
(* teapot: VulkanData *)

MemBufferStep(name) == Guarded(name, <<"buffer", "allocation">>, name)

\* the loop that creates the per-frame uniform buffers: the vector is
\* guarded only once the loop has finished
UniformStep ==
    Step("uniform buffer", <<"buffer", "allocation">>, ConcurrentResourceCount, << >>,
         TRUE, "leak", "uniform buffer", FALSE)

VulkanDataNewSteps ==
    << Guarded("vertex shader", <<"shader_module">>, "vertex shader"),
       Guarded("tessellation evaluation shader", <<"shader_module">>,
               "tessellation evaluation shader"),
       Guarded("tessellation control shader", <<"shader_module">>,
               "tessellation control shader"),
       Guarded("fragment shader", <<"shader_module">>, "fragment shader"),
       MemBufferStep("control points buffer"),
       MemBufferStep("patches buffer"),
       MemBufferStep("instances buffer"),
       UniformStep,
       Guarded("descriptor set layout", <<"descriptor_set_layout">>,
               "failed to create descriptor set layout"),
       Guarded("pipeline layout", <<"pipeline_layout">>, "failed to create pipeline layout"),
       Guarded("render pass", <<"render_pass">>, "failed to create render pass"),
       Guarded("pipelines", <<"pipeline", "pipeline">>, "failed to create pipelines") >>

\* the destroy calls for the handles of a returned struct, step by step in
\* the order of the step list
DestroyHeld(steps, held) ==
    Concat([i \in 1..Len(steps) |->
              [j \in 1..Len(held[i]) |->
                 Ev("destroy", steps[i].kinds[((j - 1) % Len(steps[i].kinds)) + 1],
                    held[i][j], 0)]])

VulkanDataClean(held) == DestroyHeld(VulkanDataNewSteps, held)

----------------------------------------------------------------------------
(* vulkan_base crate: VulkanBase and the swapchain helpers *)

VulkanBaseNewSteps ==
    << Check("check_instance_version", "minimum supported vulkan api version is 1.2.0"),
       Check("check_required_instance_extensions", "instance extension is not supported"),
       Guarded("create_instance", <<"instance">>, "failed to create instance"),
       Guarded("create_surface", <<"surface">>, "failed to create surface"),
       Check("get_physical_device", "failed to find suitable device"),
       Check("get_surface_format", "failed to get physical device surface formats"),
       Check("get_present_mode", "failed to get physical device surface present modes"),
       Check("get_queue_family", "failed to find graphics queue with present support"),
       Check("get_depth_format", "failed to find depth format"),
       Guarded("create_logical_device", <<"device">>, "failed to create device") >>

VulkanBaseClean(held) ==
    << Ev("destroy", "device", held[10][1], 0),
       Ev("destroy", "surface", held[4][1], 0),
       Ev("destroy", "instance", held[3][1], 0) >>

\* create_swapchain: the log opens with the call and its old_swapchain argument
CreateSwapchain(old_swapchain, fail, h0) ==
    LET entry == << Ev("call", "create_swapchain", 0, old_swapchain) >>
    IN IF fail.step = "swapchain"
         THEN [ret |-> Err("failed to create swapchain", -1),
               log |-> entry \o << Ev("fail", "swapchain", 0, old_swapchain) >>,
               held |-> << >>, nh |-> h0]
       ELSE [ret |-> Ok,
             log |-> entry \o << Ev("create", "swapchain", h0 + 1, old_swapchain) >>
                     \o (IF old_swapchain # 0
                           THEN << Ev("destroy", "swapchain", old_swapchain, 0) >>
                         ELSE << >>),
             held |-> << <<h0 + 1>> >>, nh |-> h0 + 1]

\* the builders of homogeneous vectors: each destroys, in its map_err
\* closure, the elements it had pushed
VecStep(kind, count, args) ==
    Step(kind, <<kind>>, count, args, FALSE, "rollback", "failed to create", TRUE)

CreateCommandPools(fail, h0) ==
    RunScoped(<< VecStep("command_pool", ConcurrentResourceCount, << >>) >>, fail, h0)
CreateDescriptorPools(fail, h0) ==
    RunScoped(<< VecStep("descriptor_pool", ConcurrentResourceCount, << >>) >>, fail, h0)
CreateFences(fail, h0) ==
    RunScoped(<< VecStep("fence", ConcurrentResourceCount, << >>) >>, fail, h0)
CreateFramebuffers(swapchain_image_views, fail, h0) ==
    RunScoped(<< VecStep("framebuffer", Len(swapchain_image_views), swapchain_image_views) >>,
              fail, h0)
CreateSwapchainImageViews(swapchain_images, fail, h0) ==
    RunScoped(<< VecStep("image_view", Len(swapchain_images), swapchain_images) >>, fail, h0)

VecKinds == {"command_pool", "descriptor_pool", "fence", "framebuffer", "image_view",
             "lean_image_view"}

\* the number of elements a builder is asked for
Requested(kind, n) ==
    IF kind \in {"command_pool", "descriptor_pool", "fence"}
      THEN ConcurrentResourceCount ELSE n

\* the handles the caller passes in: images or views it already holds
Inputs(n, h0) == [i \in 1..n |-> h0 + i]

VecCall(kind, n, fail, h0) ==
    CASE kind = "command_pool" -> CreateCommandPools(fail, h0)
      [] kind = "descriptor_pool" -> CreateDescriptorPools(fail, h0)
      [] kind = "fence" -> CreateFences(fail, h0)
      [] kind = "framebuffer" -> CreateFramebuffers(Inputs(n, h0), fail, h0 + n)
      [] kind = "image_view" -> CreateSwapchainImageViews(Inputs(n, h0), fail, h0 + n)
      [] kind = "lean_image_view" -> LeanCreateSwapchainImageViews(Inputs(n, h0), fail, h0 + n)

\* the log of a builder's call opens with the call and the number of
\* elements it is asked for
VecBuild(kind, n, fail, h0) ==
    LET r == VecCall(kind, n, fail, h0)
    IN [r EXCEPT !.log = << Ev("call", kind, 0, Requested(kind, n)) >> \o @]

----------------------------------------------------------------------------
(* The calls of the constructions, one action per function *)

CanCall == phase \in {"start", "built", "unbuilt", "torn"} /\ ncalls < MaxCalls

Returned(name, fail, r) ==
    /\ Played(r.log)
    /\ ret' = r.ret
    /\ nh' = r.nh
    /\ fault' = fail
    /\ built' = r.held
    /\ op' = name
    /\ phase' = IF r.ret.ok THEN "built" ELSE "unbuilt"
    /\ ncalls' = ncalls + 1
    /\ UNCHANGED <<base, prev, chanVars, sel, slots>>

DataNew ==
    /\ CanCall
    /\ \E fail \in {NoFail} \cup FailPoints(VulkanDataNewSteps) :
         Returned("VulkanData::new", fail, Construct(VulkanDataNewSteps, fail, nh))

BaseNew ==
    /\ CanCall
    /\ \E fail \in {NoFail} \cup FailPoints(VulkanBaseNewSteps) :
         Returned("VulkanBase::new", fail, Construct(VulkanBaseNewSteps, fail, nh))

DepthBuffer ==
    /\ CanCall
    /\ \E fail \in {NoFail} \cup FailPoints(CreateDepthBufferSteps) :
         Returned("create_depth_buffer", fail, Construct(CreateDepthBufferSteps, fail, nh))

Vector ==
    /\ CanCall
    /\ \E kind \in VecKinds, n \in 1..MaxImages :
         \E fail \in {NoFail} \cup {F(IF kind = "lean_image_view" THEN "image_view" ELSE kind, i)
                                     : i \in 0..(Requested(kind, n) - 1)} :
           Returned(kind, fail, VecBuild(kind, n, fail, nh))

\* the old swapchain is null or the one the previous call returned
Swapchain ==
    /\ CanCall
    /\ \E old \in {0} \cup (IF op = "create_swapchain" /\ ret.ok THEN {built[1][1]} ELSE {}),
          fail \in {NoFail, F("swapchain", 0)} :
         Returned("create_swapchain", fail, CreateSwapchain(old, fail, nh))

Clean ==
    /\ phase = "built"
    /\ op \in {"VulkanData::new", "VulkanBase::new"}
    /\ Played(IF op = "VulkanData::new" THEN VulkanDataClean(built) ELSE VulkanBaseClean(built))
    /\ phase' = "torn"
    /\ ret' = Ok
    /\ fault' = NoFail
    /\ UNCHANGED <<base, prev, op, nh, ncalls, built, chanVars, sel, slots>>

----------------------------------------------------------------------------
(* teapot: vulkan_clean *)

\* a teardown that cleans the VulkanBase before the VulkanData
VulkanCleanCallsBaseFirst(vk_base, vk_data, fail) ==
    WaitIdle(fail) \o VulkanBaseClean(vk_base) \o VulkanDataClean(vk_data)

\* the calls of vulkan_clean once both slots were taken: the wait, whose
\* result is dropped, then VulkanData::clean, then VulkanBase::clean
VulkanCleanCalls(vk_base, vk_data, fail) ==
    WaitIdle(fail) \o VulkanDataClean(vk_data) \o VulkanBaseClean(vk_base)

OptionPanic == Err("called Option::unwrap() on a None value", -1)

\* vulkan_clean: take().unwrap() on each slot in turn; a None panics, and a
\* VulkanBase that was already taken is dropped without clean
VulkanCleanResult(s, fail) ==
    IF ~s.vulkan_base.some THEN [ret |-> OptionPanic, log |-> << >>, fault |-> NoFail, slots |-> s]
    ELSE IF ~s.vulkan_data.some
      THEN [ret |-> OptionPanic, log |-> << >>, fault |-> NoFail,
            slots |-> [s EXCEPT !.vulkan_base = NoSlot]]
    ELSE [ret |-> Ok,
          log |-> VulkanCleanCalls(s.vulkan_base.held, s.vulkan_data.held, fail),
          fault |-> fail,
          slots |-> [vulkan_base |-> NoSlot, vulkan_data |-> NoSlot]]

\* the application built both structs and keeps them in its two slots
TeapotStarted(r1, r2) ==
    /\ Played(r1.log \o r2.log)
    /\ nh' = r2.nh
    /\ slots' = [vulkan_base |-> Slot(r1.held), vulkan_data |-> Slot(r2.held)]

TeapotStart ==
    /\ phase = "start"
    /\ \E r1 \in {Construct(VulkanBaseNewSteps, NoFail, nh)} :
         TeapotStarted(r1, Construct(VulkanDataNewSteps, NoFail, r1.nh))
    /\ phase' = "teapot"
    /\ op' = "teapot::start"
    /\ ret' = Ok
    /\ fault' = NoFail
    /\ UNCHANGED <<base, prev, ncalls, built, chanVars, sel>>

VulkanCleaned(r) ==
    /\ Played(r.log)
    /\ ret' = r.ret
    /\ fault' = r.fault
    /\ slots' = r.slots
    /\ phase' = IF r.ret.ok THEN "teapot_cleaned" ELSE "teapot_panicked"

VulkanClean ==
    /\ phase \in {"teapot", "teapot_cleaned"}
    /\ \E fail \in {NoFail, F("wait_idle", 0)} : VulkanCleaned(VulkanCleanResult(slots, fail))
    /\ op' = "vulkan_clean"
    /\ UNCHANGED <<base, prev, nh, ncalls, built, chanVars, sel>>

----------------------------------------------------------------------------
(* mess: Core and its deferred submission channel *)

\* crossbeam_channel::bounded(16)
Capacity == 16

Producers == {1, 2}

\* the number of commands a producer records: the burst is made against the
\* one Core of the frame loop
Budget(p) == IF p = 1 /\ phase = "core" THEN MaxBurst ELSE MaxSubmits

\* the commands of p whose deferred_submit call has started
Started(p) == Cardinality({i \in 1..Len(sent) : sent[i][1] = p}) + (IF p \in pending THEN 1 ELSE 0)

\* the command buffer p is submitting in its current call
Cmd(p) == <<p, Started(p)>>

\* a channel that never reports itself full
ChanFullNever(q) == FALSE

\* the bounded channel holds Capacity entries: a send finds it full
ChanFull(q) == Len(q) >= Capacity

\* a send that enqueues the entry twice
ChanSendTwice(q, entry) == Append(Append(q, entry), entry)

\* a send that puts the entry at the front
ChanSendFront(q, entry) == << entry >> \o q

\* Sender::send on the bounded channel: the entry goes to the back
ChanSend(q, entry) == Append(q, entry)

nonChanVars == <<base, prev, calls, ret, op, live, destroyed, twice, nh, ncalls, fault, built, sel, slots>>

nonCoreVars == <<base, prev, ncalls, sel, slots>>

\* a receiver kept by the first Core only
ReceiverHeldByFirst(n) == n >= 2

\* CoreInner owns the Sender and the Receiver: the receiving side exists
\* while the Arc's strong count is not zero
ReceiverHeld(n) == n >= 1

\* what Sender::send returns and does to the queue: with every receiver
\* gone the entry is handed back in the error and the queue is as it was
ChanSendResult(connected, q, entry) ==
    IF connected THEN [ok |-> TRUE, chan |-> ChanSend(q, entry)]
    ELSE [ok |-> FALSE, chan |-> q]

\* the instance, surface and device Core::new creates
CoreCreated(h0) ==
    << Ev("create", "instance", h0 + 1, 0),
       Ev("create", "surface", h0 + 2, 0),
       Ev("create", "device", h0 + 3, 0) >>

\* a drop that goes on when the wait has failed
CoreInnerDropAlways(inner, fail) ==
    WaitIdle(fail)
    \o << Ev("destroy", "surface", inner[2][1], 0),
          Ev("destroy", "device", inner[3][1], 0),
          Ev("destroy", "instance", inner[1][1], 0) >>

\* impl Drop for CoreInner: wait for the device to be idle and return if
\* that fails, else destroy the surface, the device and the instance
CoreInnerDrop(inner, fail) ==
    IF fail.step = "wait_idle" THEN WaitIdle(fail)
    ELSE WaitIdle(fail)
         \o << Ev("destroy", "surface", inner[2][1], 0),
               Ev("destroy", "device", inner[3][1], 0),
               Ev("destroy", "instance", inner[1][1], 0) >>

\* Core::new: the instance, surface and device are created, the channel is
\* created empty, and the one Core is returned.  It is then either kept by
\* the frame loop for the whole run ("core") or handed to clients that clone
\* and drop it ("shared").
CoreNew ==
    /\ phase = "start"
    /\ phase' \in {"core", "shared"}
    /\ Played(CoreCreated(nh))
    /\ built' = << <<nh + 1>>, <<nh + 2>>, <<nh + 3>> >>
    /\ nh' = nh + 3
    /\ ret' = Ok
    /\ op' = "Core::new"
    /\ fault' = NoFail
    /\ clones' = 1
    /\ UNCHANGED <<chan, sent, recvd, pending, frame>>
    /\ UNCHANGED nonCoreVars

\* #[derive(Clone)]: one more Core on the same CoreInner
CoreClone ==
    /\ phase = "shared"
    /\ clones >= 1
    /\ clones < MaxClones
    /\ clones' = clones + 1
    /\ UNCHANGED <<phase, chan, sent, recvd, pending, frame>>
    /\ UNCHANGED nonChanVars

\* a Core is dropped; a call of deferred_submit borrows the Core it was made
\* on, so the last one cannot go while a call is in flight.  Dropping the
\* last one drops CoreInner.
CoreDrop ==
    /\ phase = "shared"
    /\ clones >= 1
    /\ clones > 1 \/ pending = {}
    /\ clones' = clones - 1
    /\ IF clones > 1
         THEN UNCHANGED <<phase, chan, sent, recvd, pending, frame>> /\ UNCHANGED nonChanVars
       ELSE /\ phase' = "core_dropped"
            /\ \E fail \in {NoFail, F("wait_idle", 0)} :
                 /\ Played(CoreInnerDrop(built, fail))
                 /\ fault' = fail
            /\ ret' = Ok
            /\ op' = "drop"
            /\ UNCHANGED <<chan, sent, recvd, pending, frame, built, nh>>
            /\ UNCHANGED nonCoreVars

\* a producer calls deferred_submit
SubmitCall(p) ==
    /\ phase \in {"core", "shared"}
    /\ clones >= 1
    /\ p \notin pending
    /\ Started(p) < Budget(p)
    /\ pending' = pending \cup {p}
    /\ UNCHANGED <<phase, chan, sent, recvd, frame, clones>>
    /\ UNCHANGED nonChanVars

\* deferred_submit returns: send blocks while the channel is full, and what
\* it returns is dropped by `let _ =`
SubmitReturn(p) ==
    /\ phase \in {"core", "shared", "core_dropped"}
    /\ p \in pending
    /\ ~ChanFull(chan)
    /\ chan' = ChanSendResult(ReceiverHeld(clones), chan, Cmd(p)).chan
    /\ sent' = IF ChanSendResult(ReceiverHeld(clones), chan, Cmd(p)).ok
                 THEN Append(sent, Cmd(p)) ELSE sent
    /\ pending' = pending \ {p}
    /\ UNCHANGED <<phase, recvd, frame, clones>>
    /\ UNCHANGED nonChanVars

\* the consumer takes the entry at the front of the channel
Receive ==
    /\ phase \in {"core", "shared"}
    /\ chan # << >>
    /\ recvd' = Append(recvd, Head(chan))
    /\ chan' = Tail(chan)
    /\ UNCHANGED <<phase, sent, pending, frame, clones>>
    /\ UNCHANGED nonChanVars

\* one iteration of ash_test_main's loop: the counter advances, the events
\* are polled, the thread sleeps; the channel is not touched.  The loop runs
\* for as long as a Core is held.
Frame ==
    /\ phase \in {"core", "shared"}
    /\ frame' = (frame + 1) % FrameWrap
    /\ UNCHANGED <<phase, chan, sent, recvd, pending, clones>>
    /\ UNCHANGED nonChanVars

Submit == \E p \in Producers : SubmitCall(p)
Return == \E p \in Producers : SubmitReturn(p)

----------------------------------------------------------------------------
(* Capability negotiation: the API version checks and device selection *)

MaxMajor == 1
MaxMinor == 2
MaxDevices == 2

\* vk::make_api_version(0, major, minor, patch) and its accessors
MakeApiVersion(major, minor, patch) == major * 4194304 + minor * 4096 + patch
ApiVersionMajor(version) == (version \div 4194304) % 128
ApiVersionMinor(version) == (version \div 4096) % 1024

Versions == {MakeApiVersion(ma, mi, 0) : ma \in 0..MaxMajor, mi \in 0..MaxMinor}

\* a capability selection that returned a value
Selected(v) == [ok |-> TRUE, val |-> v]

\* what try_enumerate_instance_version returns: Err, Ok(None) or Ok(Some(v))
Enumerated ==
    {[kind |-> "err", version |-> 0], [kind |-> "none", version |-> 0]}
    \cup {[kind |-> "some", version |-> v] : v \in Versions}

MaxRequired == 2

InstanceExtensions == {"VK_KHR_surface", "VK_KHR_xcb_surface", "VK_EXT_debug_utils"}

\* what enumerate_instance_extension_properties returns, as the HashSet the
\* checks build from it
SupportedExtensions ==
    {[ok |-> FALSE, names |-> {}]}
    \cup {[ok |-> TRUE, names |-> names] : names \in SUBSET InstanceExtensions}

\* format!("... {:?} ...", name): an error that carries the name
ErrNaming(msg, name) == [ok |-> FALSE, msg |-> msg, idx |-> -1, name |-> name]

\* Result::unwrap on an Err
UnwrapPanic == [ok |-> FALSE, msg |-> "called Result::unwrap() on an Err value", idx |-> 0, panic |-> TRUE]

\* the loop over the required extensions from the n-th on: the first one
\* that is not in the set is returned in the error
RECURSIVE RequiredFrom(_, _, _)
RequiredFrom(required_instance_extensions, supported_instance_extensions_set, n) ==
    IF n > Len(required_instance_extensions) THEN Ok
    ELSE IF required_instance_extensions[n] \notin supported_instance_extensions_set
      THEN ErrNaming("instance extension is not supported", required_instance_extensions[n])
    ELSE RequiredFrom(required_instance_extensions, supported_instance_extensions_set, n + 1)

\* a check that passes whatever is supported
CheckRequiredInstanceExtensionsAny(enumerated, required_instance_extensions) ==
    IF ~enumerated.ok THEN Err("failed to enumerate instance extension properties", -1)
    ELSE Ok

\* vulkan_base crate: check_required_instance_extensions
CheckRequiredInstanceExtensions(enumerated, required_instance_extensions) ==
    IF ~enumerated.ok THEN Err("failed to enumerate instance extension properties", -1)
    ELSE RequiredFrom(required_instance_extensions, enumerated.names, 1)

RECURSIVE LeanRequiredFrom(_, _, _)
LeanRequiredFrom(required_instance_extensions, supported_instance_extensions_set, n) ==
    IF n > Len(required_instance_extensions) THEN Ok
    ELSE IF required_instance_extensions[n] \notin supported_instance_extensions_set
      THEN ErrNaming("instance extension is not supported", required_instance_extensions[n])
    ELSE LeanRequiredFrom(required_instance_extensions, supported_instance_extensions_set, n + 1)

\* the version the checks look at: the reported one, 1.0.0 when there is none
ReportedVersion(result) ==
    IF result.kind = "some" THEN result.version ELSE MakeApiVersion(1, 0, 0)

\* vulkan_base crate: check_instance_version
CheckInstanceVersion(result) ==
    IF result.kind = "err" THEN Err("failed to enumerate instance version", -1)
    ELSE IF ApiVersionMajor(ReportedVersion(result)) < 1
            /\ ApiVersionMinor(ReportedVersion(result)) < 2
      THEN Err("minimum supported vulkan api version is 1.2.0", -1)
    ELSE Ok

\* teapot_lean: compatibility_check, the version and then the extensions
CompatibilityCheck(result, enumerated, required_instance_extensions) ==
    IF result.kind = "err" THEN Err("failed to enumerate instance version", -1)
    ELSE IF ApiVersionMajor(ReportedVersion(result)) < 1
            /\ ApiVersionMinor(ReportedVersion(result)) < 2
      THEN Err("minimum supported vulkan api version is 1.2.0", -1)
    ELSE IF ~enumerated.ok THEN UnwrapPanic
    ELSE LeanRequiredFrom(required_instance_extensions, enumerated.names, 1)

DeviceExtensions == {"VK_KHR_swapchain"}

\* a physical device as the checks see it
Device(version, tess, fill, exts) ==
    [api_version |-> version, tessellation_shader |-> tess, fill_mode_non_solid |-> fill,
     extensions |-> exts]

\* the devices an enumeration may list
Devices ==
    {Device(v, t, f, e) : v \in {MakeApiVersion(0, 1, 0), MakeApiVersion(1, 2, 0)},
                          t \in 0..1, f \in 0..1, e \in SUBSET DeviceExtensions}

\* every device the version check is tried on
VersionedDevices == {Device(v, t, 1, DeviceExtensions) : v \in Versions, t \in 0..1}

\* vulkan_base crate: check_device_suitability
CheckDeviceSuitability(device, required_extensions) ==
    IF ApiVersionMajor(device.api_version) < 1 /\ ApiVersionMinor(device.api_version) < 2
      THEN Err("the device does not support API version 1.2.0", -1)
    ELSE IF device.tessellation_shader = 0
      THEN Err("the device does not support tesselation shader", -1)
    ELSE IF device.fill_mode_non_solid = 0
      THEN Err("the device does not support fill mode non solid", -1)
    ELSE IF \E e \in required_extensions : e \notin device.extensions
      THEN Err("device extension is not supported", -1)
    ELSE Ok

\* teapot_lean: check_device_suitability
LeanCheckDeviceSuitability(device, required_extensions) ==
    IF ApiVersionMajor(device.api_version) < 1 /\ ApiVersionMinor(device.api_version) < 2
      THEN Err("the device does not support API version 1.2.0", -1)
    ELSE IF device.tessellation_shader = 0
      THEN Err("the device does not support tesselation shader", -1)
    ELSE IF device.fill_mode_non_solid = 0
      THEN Err("the device does not support fill mode non solid", -1)
    ELSE IF \E e \in required_extensions : e \notin device.extensions
      THEN Err("device extension is not supported", -1)
    ELSE Ok

\* the loop over the enumerated devices, from device n on: an unsuitable
\* device is skipped, the first suitable one is returned
RECURSIVE SuitableFrom(_, _, _)
SuitableFrom(devices, required_device_extensions, n) ==
    IF n > Len(devices) THEN Err("failed to find suitable device", -1)
    ELSE IF ~CheckDeviceSuitability(devices[n], required_device_extensions).ok
      THEN SuitableFrom(devices, required_device_extensions, n + 1)
    ELSE Selected(n)

\* a selection that returns the last suitable device of the enumeration
GetPhysicalDeviceLast(enumerated, required_device_extensions) ==
    LET passing == {n \in 1..Len(enumerated.devices) :
                      CheckDeviceSuitability(enumerated.devices[n],
                                             required_device_extensions).ok}
    IN IF passing = {} THEN Err("failed to find suitable device", -1)
       ELSE Selected(CHOOSE n \in passing : \A m \in passing : m <= n)

\* vulkan_base crate: get_physical_device; a device is named by its place in
\* the enumeration
GetPhysicalDevice(enumerated, required_device_extensions) ==
    IF ~enumerated.ok THEN Err("failed to enumerate physical devices", -1)
    ELSE SuitableFrom(enumerated.devices, required_device_extensions, 1)

RECURSIVE LeanSuitableFrom(_, _, _)
LeanSuitableFrom(devices, required_device_extensions, n) ==
    IF n > Len(devices) THEN Err("failed to find suitable device", -1)
    ELSE IF ~LeanCheckDeviceSuitability(devices[n], required_device_extensions).ok
      THEN LeanSuitableFrom(devices, required_device_extensions, n + 1)
    ELSE Selected(n)

\* teapot_lean: get_physical_device
LeanGetPhysicalDevice(enumerated, required_device_extensions) ==
    IF ~enumerated.ok THEN Err("failed to enumerate physical devices", -1)
    ELSE LeanSuitableFrom(enumerated.devices, required_device_extensions, 1)

RECURSIVE SeqsUpTo(_, _)
\* the sequences over S of length at most n
SeqsUpTo(S, n) ==
    IF n = 0 THEN {<< >>}
    ELSE SeqsUpTo(S, n - 1) \cup {Append(q, x) : q \in SeqsUpTo(S, n - 1), x \in S}

\* what enumerate_physical_devices returns
Enumerations ==
    {[ok |-> FALSE, devices |-> << >>]}
    \cup {[ok |-> TRUE, devices |-> ds] : ds \in SeqsUpTo(Devices, MaxDevices)}

\* a selection function was called on input and returned out
CanSelect == phase = "start"

SelectionMade(fn, input, out) ==
    /\ phase' = "selected"
    /\ sel' = [fn |-> fn, in |-> input, out |-> out]
    /\ UNCHANGED <<base, prev, calls, ret, op, live, destroyed, twice, nh, ncalls, fault, built, slots>>
    /\ UNCHANGED chanVars

CheckInstanceVersionCall ==
    /\ CanSelect
    /\ \E result \in Enumerated :
       SelectionMade("check_instance_version", result, CheckInstanceVersion(result))

\* the lists of required instance extensions a caller may pass
RequiredLists == SeqsUpTo(InstanceExtensions, MaxRequired)

CompatibilityCheckCall ==
    /\ CanSelect
    /\ \E result \in Enumerated, enumerated \in SupportedExtensions, required \in RequiredLists :
       SelectionMade("compatibility_check",
                     [result |-> result, enumerated |-> enumerated, required |-> required],
                     CompatibilityCheck(result, enumerated, required))

\* teapot_lean: VulkanBase::new matches on what compatibility_check returned
LeanNewCompatibility(checked) ==
    IF checked.ok THEN Ok
    ELSE IF checked = UnwrapPanic THEN UnwrapPanic
    ELSE Err("compatibility check failed", -1)

LeanNewCompatibilityCall ==
    /\ CanSelect
    /\ \E result \in Enumerated, enumerated \in SupportedExtensions, required \in RequiredLists :
       SelectionMade("teapot_lean::VulkanBase::new",
                     [result |-> result, enumerated |-> enumerated, required |-> required],
                     LeanNewCompatibility(CompatibilityCheck(result, enumerated, required)))

CheckRequiredInstanceExtensionsCall ==
    /\ CanSelect
    /\ \E enumerated \in SupportedExtensions, required \in RequiredLists :
       SelectionMade("check_required_instance_extensions",
                     [enumerated |-> enumerated, required |-> required],
                     CheckRequiredInstanceExtensions(enumerated, required))

CheckDeviceSuitabilityCall ==
    /\ CanSelect
    /\ \E device \in VersionedDevices, lean \in BOOLEAN :
       SelectionMade(IF lean THEN "teapot_lean::check_device_suitability"
                     ELSE "check_device_suitability",
                     device,
                     IF lean THEN LeanCheckDeviceSuitability(device, DeviceExtensions)
                     ELSE CheckDeviceSuitability(device, DeviceExtensions))

GetPhysicalDeviceCall ==
    /\ CanSelect
    /\ \E enumerated \in Enumerations :
       SelectionMade("get_physical_device", enumerated,
                     GetPhysicalDevice(enumerated, DeviceExtensions))

LeanGetPhysicalDeviceCall ==
    /\ CanSelect
    /\ \E enumerated \in Enumerations :
       SelectionMade("teapot_lean::get_physical_device", enumerated,
                     LeanGetPhysicalDevice(enumerated, DeviceExtensions))

----------------------------------------------------------------------------
(* Capability negotiation: queue family, depth format, surface format and   *)
(* present mode                                                            *)

MaxFamilies == 2
MaxFormats == 2

\* a queue family: its queue count, its graphics flag and what
\* get_physical_device_surface_support answers for it
Families ==
    [queue_count : 1..2, graphics : BOOLEAN, present : {"yes", "no", "error"}]

\* the loop over the families from index ind on (indices start at 0)
RECURSIVE QueueFamilyFrom(_, _)
QueueFamilyFrom(props, ind) ==
    IF ind >= Len(props)
      THEN Err("failed to find graphics queue with present support", -1)
    ELSE IF props[ind + 1].queue_count > 0 /\ props[ind + 1].graphics
      THEN IF props[ind + 1].present = "error"
             THEN Err("failed to get physical device surface_support", -1)
           ELSE IF props[ind + 1].present = "yes" THEN Selected(ind)
           ELSE QueueFamilyFrom(props, ind + 1)
    ELSE QueueFamilyFrom(props, ind + 1)

\* a selection that takes family 0 whatever it supports
GetQueueFamilyZero(props) ==
    IF props = << >> THEN Err("failed to find graphics queue with present support", -1)
    ELSE Selected(0)

\* vulkan_base crate: get_queue_family
GetQueueFamily(props) == QueueFamilyFrom(props, 0)

\* teapot_lean: the loop leaves at the first family found, with the flag set
RECURSIVE LeanQueueFamilyFrom(_, _)
LeanQueueFamilyFrom(props, ind) ==
    IF ind >= Len(props) THEN [err |-> FALSE, found_queue_with_support |-> FALSE, queue_family |-> 0]
    ELSE IF props[ind + 1].queue_count > 0 /\ props[ind + 1].graphics
      THEN IF props[ind + 1].present = "error"
             THEN [err |-> TRUE, found_queue_with_support |-> FALSE, queue_family |-> 0]
           ELSE IF props[ind + 1].present = "yes"
             THEN [err |-> FALSE, found_queue_with_support |-> TRUE, queue_family |-> ind]
           ELSE LeanQueueFamilyFrom(props, ind + 1)
    ELSE LeanQueueFamilyFrom(props, ind + 1)

LeanQueueFamilyResult(r) ==
    IF r.err THEN Err("failed to get physical device surface_support", -1)
    ELSE IF r.found_queue_with_support THEN Selected(r.queue_family)
    ELSE Err("failed to find graphics queue with present support", -1)

\* teapot_lean: the queue family selection of VulkanBase::new
LeanQueueFamily(props) == LeanQueueFamilyResult(LeanQueueFamilyFrom(props, 0))

FormatCandidates == << "D16_UNORM_S8_UINT", "D24_UNORM_S8_UINT", "D32_SFLOAT_S8_UINT" >>

\* the optimal tiling features a device may report for a format
FormatFeatures == SUBSET {"DEPTH_STENCIL_ATTACHMENT", "SAMPLED_IMAGE"}

\* the loop over the candidates from candidate n on: the first one with the
\* feature is returned
RECURSIVE DepthFormatFrom(_, _)
DepthFormatFrom(optimal_tiling_features, n) ==
    IF n > Len(FormatCandidates) THEN Err("failed to find depth format", -1)
    ELSE IF "DEPTH_STENCIL_ATTACHMENT" \in optimal_tiling_features[FormatCandidates[n]]
      THEN Selected(FormatCandidates[n])
    ELSE DepthFormatFrom(optimal_tiling_features, n + 1)

\* a selection that takes the first candidate whatever the device reports
GetDepthFormatHead(optimal_tiling_features) == Selected(FormatCandidates[1])

\* vulkan_base crate: get_depth_format
GetDepthFormat(optimal_tiling_features) == DepthFormatFrom(optimal_tiling_features, 1)

\* teapot_lean: the loop runs over every candidate and assigns depth_format
\* at each one that has the feature
RECURSIVE LeanDepthFormatFrom(_, _, _)
LeanDepthFormatFrom(optimal_tiling_features, n, depth_format) ==
    IF n > Len(FormatCandidates) THEN depth_format
    ELSE LeanDepthFormatFrom(
           optimal_tiling_features, n + 1,
           IF "DEPTH_STENCIL_ATTACHMENT" \in optimal_tiling_features[FormatCandidates[n]]
             THEN FormatCandidates[n] ELSE depth_format)

\* teapot_lean: the depth format selection of VulkanBase::new
LeanDepthFormat(optimal_tiling_features) ==
    Selected(LeanDepthFormatFrom(optimal_tiling_features, 1, "D16_UNORM_S8_UINT"))

SurfaceFormat(format, color_space) == [format |-> format, color_space |-> color_space]

PreferredSurfaceFormat == SurfaceFormat("B8G8R8A8_UNORM", "SRGB_NONLINEAR")

\* the formats a surface may report
SurfaceFormats ==
    { PreferredSurfaceFormat,
      SurfaceFormat("B8G8R8A8_UNORM", "EXTENDED_SRGB_LINEAR_EXT"),
      SurfaceFormat("R8G8B8A8_SRGB", "SRGB_NONLINEAR") }

\* what a query returning a vector returns: Err, or Ok with the vector
QueryResults(S, n) ==
    {[ok |-> FALSE, items |-> << >>]} \cup {[ok |-> TRUE, items |-> q] : q \in SeqsUpTo(S, n)}

HasPreferred(formats) ==
    \E n \in 1..Len(formats) :
      formats[n].format = "B8G8R8A8_UNORM" /\ formats[n].color_space = "SRGB_NONLINEAR"

\* formats[0] on an empty vector
Panic == [ok |-> FALSE, msg |-> "index out of bounds", idx |-> 0, panic |-> TRUE]

\* vulkan_base crate: get_surface_format
GetSurfaceFormat(queried) ==
    IF ~queried.ok THEN Err("failed to get physical device surface formats", -1)
    ELSE IF HasPreferred(queried.items) THEN Selected(PreferredSurfaceFormat)
    ELSE IF queried.items = << >> THEN Panic
    ELSE Selected(queried.items[1])

\* teapot_lean: the surface format selection of VulkanBase::new
LeanSurfaceFormat(queried) ==
    IF ~queried.ok THEN Err("failed to get physical device surface formats", -1)
    ELSE IF HasPreferred(queried.items) THEN Selected(PreferredSurfaceFormat)
    ELSE Err("cannot find surface format", -1)

PresentModes == {"MAILBOX", "IMMEDIATE", "FIFO", "FIFO_RELAXED"}

\* what get_physical_device_surface_present_modes returns
PresentModeResults ==
    {[ok |-> FALSE, modes |-> {}]} \cup {[ok |-> TRUE, modes |-> ms] : ms \in SUBSET PresentModes}

\* a selection that answers FIFO for every set of modes
GetPresentModeFifo(queried) ==
    IF ~queried.ok \/ queried.modes = {}
      THEN Err("failed to get physical device surface present modes", -1)
    ELSE Selected("FIFO")

\* vulkan_base crate: get_present_mode
GetPresentMode(queried) ==
    IF ~queried.ok THEN Err("failed to get physical device surface present modes", -1)
    ELSE IF queried.modes = {}
      THEN Err("failed to get physical device surface present modes", -1)
    ELSE IF "MAILBOX" \in queried.modes THEN Selected("MAILBOX")
    ELSE IF "IMMEDIATE" \in queried.modes THEN Selected("IMMEDIATE")
    ELSE Selected("FIFO")

\* if cond { variable = new }
AssignIf(cond, new, old) == IF cond THEN new ELSE old

\* teapot_lean: FIFO, then IMMEDIATE if supported, then MAILBOX if supported
LeanPresentModeOf(modes) ==
    AssignIf("MAILBOX" \in modes, "MAILBOX",
             AssignIf("IMMEDIATE" \in modes, "IMMEDIATE", "FIFO"))

\* teapot_lean: the present mode selection of VulkanBase::new
LeanPresentMode(queried) ==
    IF ~queried.ok THEN Err("failed to get physical device surface present modes", -1)
    ELSE IF queried.modes = {}
      THEN Err("failed to get physical device surface present modes", -1)
    ELSE Selected(LeanPresentModeOf(queried.modes))

----------------------------------------------------------------------------
(* The surface extent and the requested image count *)

MaxExtent == 2
MaxImageCount == 4

\* a chosen extent that is the window size as it is
GetSurfaceExtentUnclamped(surface_capabilities, window_size) ==
    IF surface_capabilities.current_extent.width = U32Max THEN window_size
    ELSE surface_capabilities.current_extent

\* vulkan_base crate: get_surface_extent
GetSurfaceExtent(surface_capabilities, window_size) ==
    IF surface_capabilities.current_extent.width = U32Max
      THEN Extent(Max(surface_capabilities.min_image_extent.width,
                      Min(surface_capabilities.max_image_extent.width, window_size.width)),
                  Max(surface_capabilities.min_image_extent.height,
                      Min(surface_capabilities.max_image_extent.height, window_size.height)))
    ELSE surface_capabilities.current_extent

\* an image count that does not look at the surface maximum
SwapchainImageCountUnbounded(surface_capabilities) ==
    Max(surface_capabilities.min_image_count, 3)

\* vulkan_base crate: the image count create_swapchain asks for
SwapchainImageCount(surface_capabilities) ==
    IF surface_capabilities.max_image_count # 0
      THEN Min(Max(surface_capabilities.min_image_count, 3), surface_capabilities.max_image_count)
    ELSE Max(surface_capabilities.min_image_count, 3)

Extents(lo, hi) == {Extent(w, h) : w \in lo..hi, h \in lo..hi}

\* the capabilities a surface may report to the extent computation: the
\* current extent is the special value (u32::MAX, u32::MAX) or a size
ExtentCaps ==
    {Caps(cur, mn, mx, 1, 0) : cur \in {Extent(U32Max, U32Max)} \cup Extents(1, MaxExtent),
                               mn \in Extents(1, MaxExtent), mx \in Extents(1, MaxExtent)}

\* the capabilities a surface may report to the image count computation: the
\* maximum is 0 (no limit) or at least the minimum
CountCaps ==
    {Caps(Extent(1, 1), Extent(1, 1), Extent(1, 1), c[1], c[2]) :
       c \in {d \in (1..MaxImageCount) \X (0..MaxImageCount) : d[2] = 0 \/ d[2] >= d[1]}}

SurfaceExtentCall ==
    /\ CanSelect
    /\ \E caps \in ExtentCaps, win \in Extents(0, MaxExtent + 1), lean \in BOOLEAN :
       SelectionMade(IF lean THEN "teapot_lean::surface_extent" ELSE "get_surface_extent",
                     [caps |-> caps, win |-> win],
                     IF lean THEN LeanSurfaceExtent(caps, win) ELSE GetSurfaceExtent(caps, win))

ImageCountCall ==
    /\ CanSelect
    /\ \E caps \in CountCaps, lean \in BOOLEAN :
       SelectionMade(IF lean THEN "teapot_lean::image_count" ELSE "create_swapchain",
                     caps,
                     IF lean THEN LeanImageCount(caps) ELSE SwapchainImageCount(caps))

GetQueueFamilyCall ==
    /\ CanSelect
    /\ \E props \in SeqsUpTo(Families, MaxFamilies) :
       SelectionMade("get_queue_family", props, GetQueueFamily(props))

LeanQueueFamilyCall ==
    /\ CanSelect
    /\ \E props \in SeqsUpTo(Families, MaxFamilies) :
       SelectionMade("teapot_lean::queue_family", props, LeanQueueFamily(props))

GetDepthFormatCall ==
    /\ CanSelect
    /\ \E features \in [{FormatCandidates[n] : n \in 1..3} -> FormatFeatures] :
       SelectionMade("get_depth_format", features, GetDepthFormat(features))

LeanDepthFormatCall ==
    /\ CanSelect
    /\ \E features \in [{FormatCandidates[n] : n \in 1..3} -> FormatFeatures] :
       SelectionMade("teapot_lean::depth_format", features, LeanDepthFormat(features))

GetSurfaceFormatCall ==
    /\ CanSelect
    /\ \E queried \in QueryResults(SurfaceFormats, MaxFormats) :
       SelectionMade("get_surface_format", queried, GetSurfaceFormat(queried))

LeanSurfaceFormatCall ==
    /\ CanSelect
    /\ \E queried \in QueryResults(SurfaceFormats, MaxFormats) :
       SelectionMade("teapot_lean::surface_format", queried, LeanSurfaceFormat(queried))

GetPresentModeCall ==
    /\ CanSelect
    /\ \E queried \in PresentModeResults :
       SelectionMade("get_present_mode", queried, GetPresentMode(queried))

LeanPresentModeCall ==
    /\ CanSelect
    /\ \E queried \in PresentModeResults :
       SelectionMade("teapot_lean::present_mode", queried, LeanPresentMode(queried))

----------------------------------------------------------------------------

Next ==
    \/ LeanNew
    \/ LeanResize
    \/ LeanClean
    \/ DataNew
    \/ BaseNew
    \/ DepthBuffer
    \/ Vector
    \/ Swapchain
    \/ Clean
    \/ TeapotStart
    \/ VulkanClean
    \/ CoreNew
    \/ CoreClone
    \/ CoreDrop
    \/ Submit
    \/ Return
    \/ Receive
    \/ Frame
    \/ CheckInstanceVersionCall
    \/ CompatibilityCheckCall
    \/ CheckRequiredInstanceExtensionsCall
    \/ LeanNewCompatibilityCall
    \/ CheckDeviceSuitabilityCall
    \/ GetPhysicalDeviceCall
    \/ LeanGetPhysicalDeviceCall
    \/ GetQueueFamilyCall
    \/ LeanQueueFamilyCall
    \/ GetDepthFormatCall
    \/ LeanDepthFormatCall
    \/ GetSurfaceFormatCall
    \/ LeanSurfaceFormatCall
    \/ GetPresentModeCall
    \/ LeanPresentModeCall
    \/ SurfaceExtentCall
    \/ ImageCountCall

Spec == Init /\ [][Next]_vars

\* the threads keep running: the frame loop iterates, a producer that can
\* call does, and a send that can complete does.  Nothing in the frame loop
\* receives, so no fairness is stated for Receive.
FairSpec ==
    /\ Spec
    /\ WF_vars(Frame)
    /\ \A p \in Producers : WF_vars(SubmitCall(p)) /\ WF_vars(SubmitReturn(p))

----------------------------------------------------------------------------
(* Reading the call log *)

CreateSeq == SelectSeq(calls, LAMBDA e : e.op = "create")
DestroySeq == SelectSeq(calls, LAMBDA e : e.op = "destroy" /\ e.h # 0)

Positions(o, kind) == {i \in 1..Len(calls) : calls[i].op = o /\ calls[i].kind = kind}

MemHandles(m) == {m.image, m.view, m.allocation} \ {0}

\* the handles the swapchain state of a VulkanBase names
SwapchainStateHandles(b) ==
    ({b.swapchain} \cup Range(b.swapchain_image_views)
       \cup MemHandles(b.depth_buffer_mem_image)) \ {0}

\* every handle a VulkanBase names
BaseHandles(b) ==
    SwapchainStateHandles(b) \cup ({b.instance, b.surface, b.device, b.allocator} \ {0})

HeldSet(held) == UNION {Range(held[i]) : i \in 1..Len(held)}

StepSize(st) == st.count * Len(st.kinds)

RECURSIVE SizeUpTo(_, _)
SizeUpTo(steps, i) == IF i = 0 THEN 0 ELSE StepSize(steps[i]) + SizeUpTo(steps, i - 1)

StepIndex(steps, name) == CHOOSE i \in 1..Len(steps) : steps[i].name = name

\* the step that made the j-th create call of a construction
StepOfCreate(steps, j) ==
    CHOOSE i \in 1..Len(steps) : SizeUpTo(steps, i - 1) < j /\ j <= SizeUpTo(steps, i)

CreateIndex(h) == CHOOSE j \in 1..Len(CreateSeq) : CreateSeq[j].h = h

ScopedOps == {"VulkanData::new", "VulkanBase::new", "create_depth_buffer"}

StepsOf(o) ==
    CASE o = "VulkanData::new" -> VulkanDataNewSteps
      [] o = "VulkanBase::new" -> VulkanBaseNewSteps
      [] o = "create_depth_buffer" -> CreateDepthBufferSteps

DepthSteps == {"depth_image", "depth_alloc", "depth_bind", "depth_view"}

----------------------------------------------------------------------------
(* Claims *)

\* C1: a resize in which any step fails returns an error and leaves
\* swapchain, swapchain_image_views, depth_buffer_mem_image and surface_extent
\* as they were, with none of the handles they name destroyed.
C1_FailedResizeLeavesStateUntouched ==
    (op = "resize" /\ fault # NoFail) =>
        /\ ~ret.ok
        /\ base.swapchain = prev.swapchain
        /\ base.swapchain_image_views = prev.swapchain_image_views
        /\ base.depth_buffer_mem_image = prev.depth_buffer_mem_image
        /\ base.surface_extent = prev.surface_extent
        /\ SwapchainStateHandles(prev) \cap Destroyed(calls) = {}

\* the old swapchain of the last call: the argument of create_swapchain, the
\* swapchain field of self in new and resize
OldSwapchain == IF op = "create_swapchain" THEN calls[1].arg ELSE prev.swapchain

\* C2: in every resize and create_swapchain call the old swapchain handle is
\* the old_swapchain of the creation of the new one, it is destroyed only
\* after a creation that succeeded, and it is not destroyed when the
\* creation failed.
C2_OldSwapchainDestroyedAfterCreation ==
    op \in {"new", "resize", "create_swapchain"} =>
        /\ \A i \in Positions("create", "swapchain") \cup Positions("fail", "swapchain") :
             calls[i].arg = OldSwapchain
        /\ \A i \in Positions("destroy", "swapchain") :
             /\ calls[i].h = OldSwapchain
             /\ \E j \in Positions("create", "swapchain") : j < i /\ calls[j].arg = calls[i].h
        /\ Positions("fail", "swapchain") # {} => Positions("destroy", "swapchain") = {}

C2_Witness ==
    /\ op = "resize"
    /\ prev.swapchain # 0
    /\ \E i \in Positions("destroy", "swapchain") : calls[i].h = prev.swapchain

\* C3: a resize destroys the old depth buffer (image, view, allocation) only
\* after the new depth buffer has been created; when the new one cannot be
\* built the old one is not destroyed and stays in self.
C3_OldDepthBufferFreedAfterNewBuilt ==
    op = "resize" =>
        LET old == MemHandles(prev.depth_buffer_mem_image)
            gone == {i \in 1..Len(calls) : calls[i].op = "destroy" /\ calls[i].h \in old}
            new == MemHandles(base.depth_buffer_mem_image)
            made == {i \in 1..Len(calls) : calls[i].op = "create" /\ calls[i].h \in new}
        IN IF ret.ok
             THEN \A i \in gone : \A j \in made : j < i
           ELSE /\ gone = {}
                /\ fault.step \in DepthSteps =>
                     base.depth_buffer_mem_image = prev.depth_buffer_mem_image

\* C4: when a resize fails, every object created during that call has been
\* destroyed by the time the error is returned.
C4_FailedResizeLeaksNothing ==
    (op = "resize" /\ ~ret.ok) => Created(calls) \cap live = {}

\* C5: in VulkanData::new, the vulkan_base crate's VulkanBase::new and
\* create_depth_buffer, a failure of step k returns the error of step k and
\* destroys exactly the resources of steps 1..k-1, each once, a later step's
\* resources before an earlier step's; nothing of step k is destroyed.
C5_ScopedRollback ==
    (op \in ScopedOps /\ fault # NoFail) =>
        LET steps == StepsOf(op)
            k == StepIndex(steps, fault.step)
            N == SizeUpTo(steps, k - 1)
            stepOf(h) == StepOfCreate(steps, CreateIndex(h))
        IN /\ ~ret.ok
           /\ ret.msg = steps[k].err
           /\ built = << >>
           /\ Len(DestroySeq) = N
           /\ Destroyed(calls) = {CreateSeq[j].h : j \in 1..N}
           /\ \A a \in 1..(N - 1) :
                stepOf(DestroySeq[a].h) >= stepOf(DestroySeq[a + 1].h)
           /\ \A a \in 1..Len(DestroySeq) : stepOf(DestroySeq[a].h) < k

C5_Witness ==
    /\ op = "VulkanData::new"
    /\ fault = F("descriptor set layout", 0)
    /\ ~ret.ok
    /\ Len(DestroySeq) = SizeUpTo(VulkanDataNewSteps, 8)

\* C6: when creation of uniform buffer i fails in VulkanData::new, the
\* buffers 0..i-1 and their allocations, and every earlier resource, are
\* destroyed before the error is returned.
C6_UniformBuffersRolledBack ==
    (op = "VulkanData::new" /\ fault.step = "uniform buffer") =>
        /\ ~ret.ok
        /\ Created(calls) \cap live = {}
        /\ Created(calls) \subseteq Destroyed(calls)

\* C7: a vector builder that fails at element k destroys exactly the
\* elements 0..k-1 it created, each once, and nothing else, and returns an
\* error naming k; when every element succeeds nothing is destroyed and the
\* vector has one element per requested item.
C7_VectorBuilderRollback ==
    op \in VecKinds =>
        IF fault # NoFail
          THEN /\ ~ret.ok
               /\ ret.idx = fault.idx
               /\ built = << >>
               /\ Len(CreateSeq) = fault.idx
               /\ Len(DestroySeq) = fault.idx
               /\ Destroyed(calls) = Created(calls)
               /\ Created(calls) \cap live = {}
        ELSE /\ ret.ok
             /\ DestroySeq = << >>
             /\ Len(built[1]) = calls[1].arg
             /\ Range(built[1]) = Created(calls)
             /\ Range(built[1]) \subseteq live

C7_Witness ==
    /\ op = "fence"
    /\ fault = F("fence", 1)
    /\ Len(DestroySeq) = 1

C9_FailedBootstrapLeaksNothing ==
    (op \in {"new", "VulkanBase::new"} /\ ~ret.ok) => Created(calls) \cap live = {}

\* C10: the entries received from the channel are, in order, the entries
\* whose sends completed first: received is a prefix of the completion order.
C10_DeferredSubmitsFifo ==
    /\ Len(recvd) <= Len(sent)
    /\ \A i \in 1..Len(recvd) : recvd[i] = sent[i]

C10_Witness ==
    /\ Len(recvd) >= 3
    /\ recvd[1][1] # recvd[2][1]
    /\ recvd[2][1] # recvd[3][1]

----------------------------------------------------------------------------
(* The deferred submission channel: delivery, capacity, progress *)

C12_BoundedAndBlocking ==
    /\ [](Len(chan) <= 16)
    /\ [][Len(chan) = 16 =>
             /\ pending \subseteq pending'
             /\ sent' = sent
             /\ chan' = chan \/ chan' = Tail(chan)]_vars

C12_Witness == Len(chan) = 16 /\ pending # {}

\* C13: every queued entry is eventually dequeued and every deferred_submit
\* call eventually returns.
C13_EveryEntryDequeued ==
    /\ (chan # << >>) ~> (chan = << >>)
    /\ \A p \in Producers : (p \in pending) ~> (p \notin pending)

----------------------------------------------------------------------------
(* Capability negotiation: what is selected *)

\* C14: get_physical_device returns the device of smallest enumeration index
\* that passes check_device_suitability, whatever comes after it, and
\* returns an error exactly when no enumerated device passes.
C14_FirstSuitableDevice ==
    sel.fn \in {"get_physical_device", "teapot_lean::get_physical_device"} =>
      LET devices == sel.in.devices
          passing == {n \in 1..Len(devices) :
                        IF sel.fn = "get_physical_device"
                          THEN CheckDeviceSuitability(devices[n], DeviceExtensions).ok
                        ELSE LeanCheckDeviceSuitability(devices[n], DeviceExtensions).ok}
      IN IF passing = {} THEN ~sel.out.ok
         ELSE /\ sel.out.ok
              /\ sel.out.val \in passing
              /\ \A m \in passing : sel.out.val <= m

C14_Witness ==
    /\ sel.fn = "get_physical_device"
    /\ Len(sel.in.devices) = 2
    /\ CheckDeviceSuitability(sel.in.devices[2], DeviceExtensions).ok
    /\ sel.out.ok
    /\ sel.out.val = 1

\* C15 as stated: the selected queue family is the lowest-index family that
\* has graphics capability and reports presentation support, and an error is
\* returned exactly when no family supports both.
C15_LowestGraphicsPresentFamily ==
    sel.fn \in {"get_queue_family", "teapot_lean::queue_family"} =>
      LET props == sel.in
          both == {ind \in 0..(Len(props) - 1) :
                     props[ind + 1].graphics /\ props[ind + 1].present = "yes"}
      IN IF both = {} THEN ~sel.out.ok
         ELSE /\ sel.out.ok
              /\ sel.out.val \in both
              /\ \A m \in both : sel.out.val <= m

\* C15 amended: the selected queue family is the lowest-index family that
\* has graphics capability and reports presentation support; an error is
\* returned exactly when no family supports both or the presentation support
\* query fails for a graphics family below the first family that does.
C15_LowestFamilyUnlessQueryFails ==
    sel.fn \in {"get_queue_family", "teapot_lean::queue_family"} =>
      LET props == sel.in
          both == {ind \in 0..(Len(props) - 1) :
                     props[ind + 1].graphics /\ props[ind + 1].present = "yes"}
          failing == {ind \in 0..(Len(props) - 1) :
                        props[ind + 1].graphics /\ props[ind + 1].present = "error"}
          reached == {ind \in both : \A m \in failing : ind < m}
      IN IF reached = {} THEN ~sel.out.ok
         ELSE /\ sel.out.ok
              /\ sel.out.val \in both
              /\ \A m \in both : sel.out.val <= m

C15_Witness ==
    /\ sel.fn = "teapot_lean::queue_family"
    /\ Len(sel.in) = 2
    /\ sel.in[1].graphics /\ sel.in[1].present = "no"
    /\ sel.in[2].graphics /\ sel.in[2].present = "yes"
    /\ sel.out.ok
    /\ sel.out.val = 1

\* C16: the selected depth format is the first candidate of the list whose
\* optimal tiling features include depth-stencil attachment, in
\* get_depth_format and in teapot_lean's VulkanBase::new.
C16_FirstSupportedDepthFormat ==
    sel.fn \in {"get_depth_format", "teapot_lean::depth_format"} =>
      LET supporting == {n \in 1..Len(FormatCandidates) :
                           "DEPTH_STENCIL_ATTACHMENT" \in sel.in[FormatCandidates[n]]}
      IN supporting # {} =>
           /\ sel.out.ok
           /\ \E n \in supporting :
                /\ sel.out.val = FormatCandidates[n]
                /\ \A m \in supporting : n <= m

\* C17: when exactly one candidate supports depth-stencil attachment with
\* optimal tiling, that candidate is selected, wherever it stands in the list.
C17_OnlySupportedDepthFormat ==
    sel.fn \in {"get_depth_format", "teapot_lean::depth_format"} =>
      \A n \in 1..Len(FormatCandidates) :
        (\A m \in 1..Len(FormatCandidates) :
           ("DEPTH_STENCIL_ATTACHMENT" \in sel.in[FormatCandidates[m]]) <=> (m = n))
        => sel.out = Selected(FormatCandidates[n])

C17_Witness ==
    /\ sel.fn = "teapot_lean::depth_format"
    /\ sel.in["D16_UNORM_S8_UINT"] = {"SAMPLED_IMAGE"}
    /\ sel.in["D24_UNORM_S8_UINT"] = {"DEPTH_STENCIL_ATTACHMENT"}
    /\ sel.in["D32_SFLOAT_S8_UINT"] = {"SAMPLED_IMAGE"}
    /\ sel.out = Selected("D24_UNORM_S8_UINT")

\* C18: surface format selection returns (B8G8R8A8_UNORM, SRGB_NONLINEAR)
\* when the surface reports it and otherwise the first format the surface
\* reports; the absence of the preferred pair is not an error.
C18_SurfaceFormatFallsBack ==
    (/\ sel.fn \in {"get_surface_format", "teapot_lean::surface_format"}
     /\ sel.in.ok
     /\ sel.in.items # << >>) =>
      IF \E n \in 1..Len(sel.in.items) : sel.in.items[n] = PreferredSurfaceFormat
        THEN sel.out = Selected(PreferredSurfaceFormat)
      ELSE sel.out = Selected(sel.in.items[1])

\* C19: for a non-empty set of supported modes the present mode is MAILBOX
\* if supported, else IMMEDIATE if supported, else FIFO; get_present_mode and
\* the selection of teapot_lean's VulkanBase::new agree, and both return an
\* error for the empty set.
C19_PresentModePreference ==
    (sel.fn \in {"get_present_mode", "teapot_lean::present_mode"} /\ sel.in.ok) =>
      /\ GetPresentMode(sel.in) = LeanPresentMode(sel.in)
      /\ IF sel.in.modes = {} THEN ~sel.out.ok
         ELSE IF "MAILBOX" \in sel.in.modes THEN sel.out = Selected("MAILBOX")
         ELSE IF "IMMEDIATE" \in sel.in.modes THEN sel.out = Selected("IMMEDIATE")
         ELSE sel.out = Selected("FIFO")

C19_Witness ==
    /\ sel.fn = "teapot_lean::present_mode"
    /\ sel.in.modes = {"FIFO", "IMMEDIATE", "MAILBOX"}
    /\ sel.out = Selected("MAILBOX")

\* C20: check_instance_version, compatibility_check and
\* check_device_suitability return an error for every reported version whose
\* (major, minor) is below (1, 2), the 1.0.0 default included, and succeed
\* for every other version.
C20_VersionBelowMinimumRejected ==
    LET below(version) ==
          \/ ApiVersionMajor(version) < 1
          \/ ApiVersionMajor(version) = 1 /\ ApiVersionMinor(version) < 2
    IN /\ (sel.fn = "check_instance_version" /\ sel.in.kind # "err") =>
            (~sel.out.ok <=> below(ReportedVersion(sel.in)))
       /\ (/\ sel.fn = "compatibility_check"
           /\ sel.in.result.kind # "err"
           /\ sel.in.enumerated.ok
           /\ Range(sel.in.required) \subseteq sel.in.enumerated.names) =>
            (~sel.out.ok <=> below(ReportedVersion(sel.in.result)))
       /\ (/\ sel.fn \in {"check_device_suitability", "teapot_lean::check_device_suitability"}
           /\ sel.in.tessellation_shader = 1) =>
            (~sel.out.ok <=> below(sel.in.api_version))

----------------------------------------------------------------------------
(* Errors of the negotiation and of the orchestration *)

\* C21: given the set of supported instance extensions, the required
\* extension check of check_required_instance_extensions and of
\* compatibility_check succeeds exactly when every required extension is
\* supported; otherwise it returns an error that names the first extension
\* of the required list that is not supported.
C21_FirstMissingExtensionNamed ==
    (\/ /\ sel.fn = "check_required_instance_extensions"
        /\ sel.in.enumerated.ok
     \/ /\ sel.fn = "compatibility_check"
        /\ CheckInstanceVersion(sel.in.result).ok
        /\ sel.in.enumerated.ok) =>
      LET required == sel.in.required
          missing == {n \in 1..Len(required) : required[n] \notin sel.in.enumerated.names}
      IN IF missing = {} THEN sel.out.ok
         ELSE /\ ~sel.out.ok
              /\ \E n \in missing :
                   /\ sel.out = ErrNaming("instance extension is not supported", required[n])
                   /\ \A m \in missing : n <= m

C21_Witness ==
    /\ sel.fn = "compatibility_check"
    /\ sel.in.required = << "VK_KHR_surface", "VK_EXT_debug_utils" >>
    /\ sel.in.enumerated.ok
    /\ sel.in.enumerated.names = {"VK_KHR_surface"}
    /\ sel.out = ErrNaming("instance extension is not supported", "VK_EXT_debug_utils")

\* C22: the error VulkanBase::new and resize return is the error of the
\* first failing step: a failed compatibility check is returned as
\* compatibility_check reported it, a device selection that found no device
\* returns the error of a device check that failed, and a construction
\* returns the error of the step that failed.  The device-idle wait, whose
\* result is not looked at, is left to C29.
C22_FirstFailureForwarded ==
    /\ (op \in {"new", "resize"} /\ fault \notin {NoFail, F("wait_idle", 0)}) => ~ret.ok
    /\ (op = "VulkanBase::new" /\ fault # NoFail) =>
         /\ ~ret.ok
         /\ ret.msg = VulkanBaseNewSteps[StepIndex(VulkanBaseNewSteps, fault.step)].err
    /\ sel.fn = "teapot_lean::VulkanBase::new" =>
         LET checked == CompatibilityCheck(sel.in.result, sel.in.enumerated, sel.in.required)
         IN ~checked.ok => sel.out = checked
    /\ (/\ sel.fn \in {"get_physical_device", "teapot_lean::get_physical_device"}
        /\ sel.in.ok
        /\ sel.in.devices # << >>
        /\ ~sel.out.ok) =>
         \E n \in 1..Len(sel.in.devices) :
           sel.out = CheckDeviceSuitability(sel.in.devices[n], DeviceExtensions)

\* C23: when no depth format candidate has depth-stencil attachment among its
\* optimal tiling features the selection returns an error, and a format that
\* is selected always has the feature.
C23_NoDepthFormatIsAnError ==
    sel.fn \in {"get_depth_format", "teapot_lean::depth_format"} =>
      /\ (\A n \in 1..Len(FormatCandidates) :
            "DEPTH_STENCIL_ATTACHMENT" \notin sel.in[FormatCandidates[n]]) => ~sel.out.ok
      /\ sel.out.ok => "DEPTH_STENCIL_ATTACHMENT" \in sel.in[sel.out.val]

----------------------------------------------------------------------------
(* Extent and image count *)

\* C24: when the surface reports the special value as its current extent the
\* chosen extent is, per component, the window size brought into
\* [min_image_extent, max_image_extent] (so it lies between the two when
\* min <= max); otherwise it is the reported current extent, whatever the
\* window size.
C24_ExtentClampedOrCurrent ==
    sel.fn \in {"get_surface_extent", "teapot_lean::surface_extent"} =>
      LET caps == sel.in.caps
          win == sel.in.win
          clamped(x, lo, hi) == IF x < lo THEN lo ELSE IF x > hi THEN hi ELSE x
      IN IF caps.current_extent = Extent(U32Max, U32Max)
           THEN /\ caps.min_image_extent.width <= caps.max_image_extent.width =>
                     /\ sel.out.width = clamped(win.width, caps.min_image_extent.width,
                                                caps.max_image_extent.width)
                     /\ caps.min_image_extent.width <= sel.out.width
                     /\ sel.out.width <= caps.max_image_extent.width
                /\ caps.min_image_extent.height <= caps.max_image_extent.height =>
                     /\ sel.out.height = clamped(win.height, caps.min_image_extent.height,
                                                 caps.max_image_extent.height)
                     /\ caps.min_image_extent.height <= sel.out.height
                     /\ sel.out.height <= caps.max_image_extent.height
         ELSE sel.out = caps.current_extent

C24_Witness ==
    /\ sel.fn = "get_surface_extent"
    /\ sel.in.caps.current_extent = Extent(U32Max, U32Max)
    /\ sel.in.caps.min_image_extent = Extent(1, 2)
    /\ sel.in.caps.max_image_extent = Extent(2, 2)
    /\ sel.in.win = Extent(3, 0)
    /\ sel.out = Extent(2, 2)

\* C25: the requested image count is max(min_image_count, 3) when
\* max_image_count is 0, and that value brought down to max_image_count
\* otherwise: it is at least 3 unless a maximum below 3 is reported, and it
\* never exceeds a reported maximum.
C25_ImageCountAtLeastThree ==
    sel.fn \in {"create_swapchain", "teapot_lean::image_count"} =>
      LET minc == sel.in.min_image_count
          maxc == sel.in.max_image_count
          wanted == IF minc >= 3 THEN minc ELSE 3
      IN /\ maxc = 0 => sel.out = wanted
         /\ maxc # 0 => sel.out = (IF wanted <= maxc THEN wanted ELSE maxc)
         /\ (maxc = 0 \/ maxc >= 3) => sel.out >= 3
         /\ maxc # 0 => sel.out <= maxc

C25_Witness ==
    /\ sel.fn = "create_swapchain"
    /\ sel.in.min_image_count = 1
    /\ sel.in.max_image_count = 2
    /\ sel.out = 2

----------------------------------------------------------------------------
(* Resize: views, repetition, replacement and the idle wait *)

\* C26: after the initial build and after every resize, swapchain_image_views
\* has one view per swapchain image, view i was created from image i, and no
\* view held has been destroyed.
C26_OneLiveViewPerImage ==
    (phase = "live" /\ op \in {"new", "resize"}) =>
      /\ Len(base.swapchain_image_views) = Len(base.swapchain_images)
      /\ \A i \in 1..Len(base.swapchain_image_views) :
           /\ \A j \in Positions("create", "image_view") :
                calls[j].h = base.swapchain_image_views[i] =>
                  calls[j].arg = base.swapchain_images[i]
           /\ base.swapchain_image_views[i] \notin destroyed
           /\ base.swapchain_image_views[i] \in live

\* C27: a resize that repeats a failed resize under the same driver
\* behaviour returns what the first one returned, and it starts from the
\* swapchain, extent, views and depth buffer the first one started from, all
\* of them still alive.
C27_FailedResizeRepeatable ==
    [][(op = "resize" /\ ~ret.ok /\ op' = "resize" /\ fault' = fault) =>
         /\ ret' = ret
         /\ prev' = prev
         /\ SwapchainStateHandles(prev') \subseteq live]_vars

\* C28: in the first resize after the initial build, when it succeeds, the
\* old swapchain, each old image view and the old depth buffer (image, view,
\* allocation) are destroyed exactly once, and the swapchain state names only
\* handles created by that resize.
C28_SuccessfulResizeReplacesAll ==
    (op = "resize" /\ ncalls = 1 /\ ret.ok) =>
      LET old == SwapchainStateHandles(prev)
      IN /\ \A h \in old :
              Cardinality({i \in 1..Len(calls) : calls[i].op = "destroy" /\ calls[i].h = h}) = 1
         /\ old \subseteq destroyed
         /\ old \cap twice = {}
         /\ old \cap live = {}
         /\ SwapchainStateHandles(base) \subseteq Created(calls)
         /\ SwapchainStateHandles(base) \subseteq live

C28_Witness ==
    /\ op = "resize"
    /\ ncalls = 1
    /\ ret.ok
    /\ fault = NoFail
    /\ Len(prev.swapchain_image_views) = 2
    /\ Cardinality(SwapchainStateHandles(prev)) = 6
    /\ SwapchainStateHandles(prev) \subseteq destroyed

\* C29: the device-idle wait is the first call of a resize and comes before
\* every create and destroy call, and when the wait does not complete
\* successfully nothing is created, destroyed or replaced.
C29_ResizeWaitsForIdle ==
    op = "resize" =>
      /\ calls # << >>
      /\ calls[1].op = "wait_idle" \/ (calls[1].op = "fail" /\ calls[1].kind = "wait_idle")
      /\ \A i \in 1..Len(calls) : calls[i].op \in {"create", "destroy"} => i > 1
      /\ calls[1].op = "fail" =>
           /\ \A i \in 1..Len(calls) : calls[i].op \notin {"create", "destroy"}
           /\ base = prev

----------------------------------------------------------------------------
(* Teardown *)

BaseKinds == {"device", "surface", "instance"}

\* C30: vulkan_clean makes the device-idle wait before any destroy call, then
\* destroys every VulkanData resource and after them every VulkanBase
\* resource, each exactly once, and leaves both slots empty; a second
\* vulkan_clean destroys nothing.
C30_TeardownOnceAfterIdle ==
    op = "vulkan_clean" =>
      IF phase = "teapot_cleaned"
        THEN /\ calls[1].kind \in {"device", "wait_idle"}
             /\ calls[1].op \in {"wait_idle", "fail"}
             /\ \A i \in 1..Len(calls) : calls[i].op = "destroy" => i > 1
             /\ \A i, j \in 1..Len(calls) :
                  (/\ calls[i].op = "destroy" /\ calls[i].kind \in BaseKinds
                   /\ calls[j].op = "destroy" /\ calls[j].kind \notin BaseKinds) => j < i
             /\ Destroyed(calls) = 1..nh
             /\ Len(DestroySeq) = nh
             /\ live = {}
             /\ twice = {}
             /\ slots = [vulkan_base |-> NoSlot, vulkan_data |-> NoSlot]
      ELSE /\ calls = << >>
           /\ twice = {}
           /\ slots = [vulkan_base |-> NoSlot, vulkan_data |-> NoSlot]

C30_Witness ==
    /\ op = "vulkan_clean"
    /\ phase = "teapot_panicked"
    /\ destroyed = 1..nh
    /\ nh > 3

----------------------------------------------------------------------------
(* Teardown order *)

\* the last call was a teardown that ran
TornDown == op = "clean" \/ (op = "vulkan_clean" /\ phase = "teapot_cleaned")

\* C31: in teardown the device is destroyed after every object created from
\* it, the surface after the swapchain and the device, the instance last, and
\* no object is left alive once the device is gone.
C31_NothingOutlivesDevice ==
    TornDown =>
      /\ Positions("destroy", "device") # {}
      /\ \A i \in Positions("destroy", "device") :
           \A j \in 1..Len(calls) :
             (calls[j].op = "destroy" /\ calls[j].kind \notin BaseKinds) => j < i
      /\ \A i \in Positions("destroy", "surface") :
           \A j \in Positions("destroy", "swapchain") \cup Positions("destroy", "device") : j < i
      /\ calls[Len(calls)].op = "destroy" /\ calls[Len(calls)].kind = "instance"
      /\ live = {}

\* C32: teardown destroys in the reverse of the construction order: handles
\* are handed out in the order of construction, so in VulkanData::clean and
\* VulkanBase::clean every destroy call names an older handle than the
\* destroy calls before it.
C32_TeardownReversesConstruction ==
    (TornDown \/ phase = "torn") =>
      \A i \in 1..(Len(DestroySeq) - 1) : DestroySeq[i].h > DestroySeq[i + 1].h

(* What resize may change *)
\* the fields of VulkanBase that hold the swapchain state
SwapchainFields ==
    {"surface_capabilities", "surface_extent", "swapchain", "swapchain_images",
     "swapchain_image_views", "depth_buffer_mem_image"}

\* C33: a resize, successful or failed, leaves every field of the context
\* outside the swapchain state as it was: the instance, surface, physical
\* device, device, queue and queue family, the allocator, and the surface
\* format, present mode and depth format selected in new
C33_ResizeKeepsSelections ==
    op = "resize" =>
      \A f \in (DOMAIN base) \ SwapchainFields : base[f] = prev[f]

\* a successful resize that replaced the swapchain of a context whose
\* selections were made by new
C33_Witness ==
    /\ op = "resize"
    /\ ret.ok
    /\ base.swapchain # prev.swapchain
    /\ base.present_mode = LeanSelected.present_mode
    /\ base.depth_format = LeanSelected.depth_format
    /\ base.surface_format = LeanSelected.surface_format

(* Rollback of a vector *)
\* the destroy calls, in the last call, of elements of one kind that the
\* same call had created
RolledBack(kind) ==
    SelectSeq(calls, LAMBDA e : /\ e.op = "destroy"
                                /\ e.kind = kind
                                /\ \E j \in Positions("create", kind) : calls[j].h = e.h)

\* C34: when a call fails and rolls back the elements of a vector it had
\* created (the new image views when the depth buffer cannot be created, the
\* elements a builder had pushed when a later one fails), they are destroyed
\* in strict reverse order of creation: each destroyed element is older than
\* the one destroyed before it.
C34_VectorRolledBackInReverse ==
    (op \in VecKinds \cup {"new", "resize"} /\ ~ret.ok) =>
      \A kind \in {"image_view", "command_pool", "descriptor_pool", "fence", "framebuffer"} :
        \A i \in 1..(Len(RolledBack(kind)) - 1) :
          RolledBack(kind)[i].h > RolledBack(kind)[i + 1].h

(* Handles across new, resize and clean *)
\* C35: across any sequence of new, resize (successful or failed) and
\* clean, no handle is destroyed or freed more than once, and the handle
\* passed as old_swapchain is null or a swapchain that had not been destroyed
\* when the call was made.
C35_NoHandleDestroyedTwice ==
    op \in {"new", "resize", "clean"} =>
      /\ twice = {}
      /\ \A i \in Positions("create", "swapchain") \cup Positions("fail", "swapchain") :
           \/ calls[i].arg = 0
           \/ calls[i].arg \notin destroyed
           \/ /\ calls[i].arg \notin twice
              /\ \E j \in Positions("destroy", "swapchain") : j > i /\ calls[j].h = calls[i].arg

(* Views and what backs them *)
\* view v is destroyed in the last call before position i, or had been
\* destroyed before the call
GoneBefore(v, i) ==
    /\ v \notin live
    /\ ~\E j \in Positions("destroy", "image_view") : j > i /\ calls[j].h = v

\* C36: in resize and clean no swapchain and no depth image is destroyed
\* while an image view created from it is alive: when the swapchain the
\* context held is destroyed, each of its image views has been destroyed, and
\* when the depth image it held is destroyed, the depth image view has been
\* destroyed.
C36_ViewsDestroyedBeforeBacking ==
    op \in {"resize", "clean"} =>
      /\ \A i \in Positions("destroy", "swapchain") :
           calls[i].h = prev.swapchain =>
             \A n \in 1..Len(prev.swapchain_image_views) :
               GoneBefore(prev.swapchain_image_views[n], i)
      /\ \A i \in Positions("destroy", "image") :
           (calls[i].h # 0 /\ calls[i].h = prev.depth_buffer_mem_image.image) =>
             GoneBefore(prev.depth_buffer_mem_image.view, i)

(* Core: clones, the channel's two ends, and the drop of CoreInner *)
\* C37: deferred_submit never drops a command buffer: while a call is in
\* flight or a Core exists the receiving side of the channel exists, and
\* every call that returns has put its entry at the back of the queue.
C37_SubmitAlwaysEnqueues ==
    /\ []((clones >= 1 \/ pending # {}) => ReceiverHeld(clones))
    /\ [][\A p \in Producers :
            (p \in pending /\ p \notin pending') =>
              /\ chan' = Append(chan, Cmd(p))
              /\ sent' = Append(sent, Cmd(p))]_vars

\* both producers' calls returned while the Core was shared, one clone has
\* since been dropped, and the entries are queued
C37_Witness ==
    /\ phase = "shared"
    /\ clones = 1
    /\ pending = {}
    /\ Len(sent) = 2
    /\ chan = sent

\* C38: the instance, surface and device of a Core are destroyed at most
\* once and only by the drop of the last clone: while a clone exists nothing
\* is destroyed; the drop waits for the device to be idle first, then
\* destroys the surface, the device and the instance in that order, each
\* once; when the wait fails it destroys nothing.
C38_CoreDroppedOnceByLastClone ==
    /\ (phase \in {"core", "shared"}) => (clones >= 1 /\ destroyed = {} /\ Cardinality(live) = 3)
    /\ phase = "core_dropped" =>
         /\ clones = 0
         /\ op = "drop"
         /\ twice = {}
         /\ calls[1].kind \in {"device", "wait_idle"}
         /\ calls[1].op \in {"wait_idle", "fail"}
         /\ IF calls[1].op = "fail"
              THEN Len(calls) = 1 /\ destroyed = {} /\ Cardinality(live) = 3
            ELSE /\ [i \in 1..Len(DestroySeq) |-> DestroySeq[i].kind]
                      = << "surface", "device", "instance" >>
                 /\ Len(calls) = 4
                 /\ live = {}
                 /\ destroyed = HeldSet(built)

\* the last clone was dropped with the device idle
C38_Witness ==
    /\ phase = "core_dropped"
    /\ fault = NoFail
    /\ live = {}
    /\ Len(sent) >= 1

\* the last clone was dropped and the wait failed
C38_WitnessWaitFailed ==
    /\ phase = "core_dropped"
    /\ fault = F("wait_idle", 0)

(* get_surface_format on every list *)
\* C39: get_surface_format is total: for every result of the format query,
\* the empty list included, it returns a format or an error value and does
\* not abort.
C39_GetSurfaceFormatTotal ==
    sel.fn = "get_surface_format" =>
      /\ "panic" \notin DOMAIN sel.out
      /\ sel.out.ok \/ sel.out.msg # ""

====
